---------------------------- MODULE Spec2Model ----------------------------
(***************************************************************************)
(* Attribute value verification of PBS Pro's ECL library                   *)
(* (src/lib/Libecl/ecl_verify_values.c).                                   *)
(*                                                                         *)
(* C strings are sequences of one-character strings.  A pointer into a     *)
(* buffer is a 1-based index; index Len(b)+1 is the terminating NUL, and   *)
(* 0 is the NULL pointer.  A buffer may hold NUL elements written by the   *)
(* code in place.                                                          *)
(***************************************************************************)
EXTENDS Integers, Sequences, FiniteSets, TLC

(***************************************************************************)
(* libc                                                                    *)
(***************************************************************************)
NUL == "NUL"

Min(S) == CHOOSE x \in S : \A y \in S : x <= y

At(b, i) == IF i >= 1 /\ i <= Len(b) THEN b[i] ELSE NUL

\* the index of the NUL that ends the C string starting at b[i]
CEnd(b, i) == Min({j \in i..(Len(b) + 1) : At(b, j) = NUL})

\* the C string starting at b[i]
CStr(b, i) == SubSeq(b, i, CEnd(b, i) - 1)

strlen(b, i) == CEnd(b, i) - i

UpperChars == <<"A","B","C","D","E","F","G","H","I","J","K","L","M",
                "N","O","P","Q","R","S","T","U","V","W","X","Y","Z">>
LowerChars == <<"a","b","c","d","e","f","g","h","i","j","k","l","m",
                "n","o","p","q","r","s","t","u","v","w","x","y","z">>

tolower(c) ==
    IF \E k \in 1..Len(UpperChars) : UpperChars[k] = c
    THEN LowerChars[CHOOSE k \in 1..Len(UpperChars) : UpperChars[k] = c]
    ELSE c

LowerStr(s) == [k \in 1..Len(s) |-> tolower(s[k])]

\* the vertical tab, 0x0B
VT == ""

\* isspace in the C locale: space, \t, \n, \v, \f, \r
isspace(c) == c \in {" ", "\t", "\n", VT, "\f", "\r"}

isdigit(c) == c \in {"0","1","2","3","4","5","6","7","8","9"}

Take(s, n) == SubSeq(s, 1, IF n < Len(s) THEN n ELSE Len(s))

\* strncasecmp(a, b, n) == 0, a and b C strings without NUL
strncasecmp_eq(a, b, n) == LowerStr(Take(a, n)) = LowerStr(Take(b, n))

\* strcasecmp(a, b) == 0
strcasecmp_eq(a, b) == LowerStr(a) = LowerStr(b)

\* strstr(&b[i], kw): index of the first occurrence, 0 when there is none
strstr(b, i, kw) ==
    LET e == CEnd(b, i)
        hits == {j \in i..(e - Len(kw)) : SubSeq(b, j, j + Len(kw) - 1) = kw}
    IN  IF hits = {} THEN 0 ELSE Min(hits)

\* strchr(&b[i], c) for c # NUL
strchr(b, i, c) ==
    LET e == CEnd(b, i)
        hits == {j \in i..(e - 1) : b[j] = c}
    IN  IF hits = {} THEN 0 ELSE Min(hits)

\* the index of the first character at or after b[i] that is not white space
SkipSpace(b, i) == Min({j \in i..(Len(b) + 1) : ~isspace(At(b, j))})

Poke(b, i, c) == [b EXCEPT ![i] = c]

(***************************************************************************)
(* Error codes (pbs_error.h)                                               *)
(***************************************************************************)
PBSE_NONE == 0
PBSE_BADHOST == 15008
PBSE_SYSTEM == 15010
PBSE_INTERNAL == 15011
PBSE_BADATVAL == 15014
PBSE_BADNODESPEC == 15058

\* pbse_to_txt: the text of a known error code, NULL (FALSE here) otherwise
pbse_to_txt_known(code) ==
    code \in {PBSE_BADHOST, PBSE_SYSTEM, PBSE_INTERNAL, PBSE_BADATVAL,
              PBSE_BADNODESPEC}

(***************************************************************************)
(* Error message slot: *err_msg                                            *)
(***************************************************************************)
NoMsg == [isnull |-> TRUE, code |-> 0, name |-> <<>>, resource |-> <<>>]
Msg(code, name, resource) ==
    [isnull |-> FALSE, code |-> code, name |-> name, resource |-> resource]

(***************************************************************************)
(* The environment threaded through a call: the allocations made so far,   *)
(* the allocation that fails (0: none), what the resumable plus-spec       *)
(* splitter keeps of its traversal, the log of checker calls, and the      *)
(* build: the number of bits of a long, and PBS_SECURITY == KRB5 or not.   *)
(***************************************************************************)
NoPlus == [buf |-> <<>>, pe |-> 0]
Env0(failAt) ==
    [nalloc |-> 0, failAt |-> failAt, plus |-> NoPlus, trace |-> <<>>, long_bits |-> 64,
     krb5 |-> FALSE]

\* the same where long has bits bits
EnvOf(failAt, bits) == [Env0(failAt) EXCEPT !.long_bits = bits]

\* the same in the build with PBS_SECURITY == KRB5 (krb5), or without
EnvKrb5(failAt, krb5) == [Env0(failAt) EXCEPT !.krb5 = krb5]

\* malloc/strdup: the failAt-th allocation of the call returns NULL
AllocOk(env) == env.nalloc + 1 # env.failAt
Allocd(env) == [env EXCEPT !.nalloc = @ + 1]
Logged(env, ev) == [env EXCEPT !.trace = Append(@, ev)]


(***************************************************************************)
(* char * values.  A string pointer names its buffer, the index it points  *)
(* at and the buffer's content; NULLPTR is the NULL pointer.               *)
(***************************************************************************)
NULLPTR == [null |-> TRUE, buf |-> "none", at |-> 0, mem |-> <<>>]
Ptr(buf, s) == [null |-> FALSE, buf |-> buf, at |-> 1, mem |-> s]
Str(p) == CStr(p.mem, p.at)

\* struct attropl: name, resource, value (the comparison operator op is
\* read by the checkpoint verifier only)
Attropl(name, resource, value) ==
    [null |-> FALSE, name |-> name, resource |-> resource, value |-> value]
NullAttropl ==
    [null |-> TRUE, name |-> NULLPTR, resource |-> NULLPTR, value |-> NULLPTR]

(***************************************************************************)
(* Names used by the verifiers and by the definition tables                *)
(***************************************************************************)
ATTR_l == <<"R","e","s","o","u","r","c","e","_","L","i","s","t">>
ATTR_queue == <<"q","u","e","u","e">>
TARGET_NONE == <<"N","O","N","E">>
S_ncpus == <<"n","c","p","u","s">>
S_select == <<"s","e","l","e","c","t">>
S_foo == <<"f","o","o">>

(***************************************************************************)
(* The definition tables ecl_svr_resc_def and ecl_resv_attr_def are data   *)
(* of the library outside this file.  The tables here hold one entry per   *)
(* shape of entry the verifiers distinguish: a datatype checker and a      *)
(* value checker that leave *err_msg alone (ncpus), no datatype checker    *)
(* and a value checker that sets *err_msg itself (select, whose value      *)
(* checker is verify_value_select), and a datatype checker alone (queue).  *)
(***************************************************************************)
NoFunc == "NULL"

ecl_svr_resc_def ==
    << [at_name |-> S_ncpus, at_verify_datatype |-> "verify_datatype_long",
        at_verify_value |-> "verify_value_zero_or_positive"],
       [at_name |-> S_select, at_verify_datatype |-> NoFunc,
        at_verify_value |-> "verify_value_select"] >>

ecl_resv_attr_def ==
    << [at_name |-> ATTR_queue, at_verify_datatype |-> "verify_datatype_string",
        at_verify_value |-> NoFunc] >>

\* ecl_find_resc_def: the index of the entry named name, 0 when there is none
ecl_find_resc_def(def, name) ==
    LET hits == {k \in 1..Len(def) : def[k].at_name = name}
    IN  IF hits = {} THEN 0 ELSE Min(hits)

\* a decimal integer with an optional sign
IsLong(s) ==
    LET d == IF Len(s) > 0 /\ s[1] \in {"-", "+"} THEN SubSeq(s, 2, Len(s)) ELSE s
    IN  Len(d) > 0 /\ \A k \in 1..Len(d) : isdigit(d[k])

\* at_verify_datatype of an integer resource
verify_datatype_long(value) == IF IsLong(value) THEN PBSE_NONE ELSE PBSE_BADATVAL

\* at_verify_datatype of a string attribute: the value may not be empty
verify_datatype_string(value) == IF Len(value) > 0 THEN PBSE_NONE ELSE PBSE_BADATVAL

DigitVal(c) == CHOOSE d \in 0..9 : <<"0","1","2","3","4","5","6","7","8","9">>[d + 1] = c

(***************************************************************************)
(* strtol, under atoi and atol.  A number of 64 bits is beyond the         *)
(* integers of the checker: the magnitude of a number is kept as four      *)
(* 16-bit limbs, least significant first, with a flag for a magnitude that *)
(* does not fit in 64 bits.                                                *)
(***************************************************************************)
Limb == 65536

INT_MAX == 2147483647
INT_MIN == (0 - 2147483647) - 1

NoDigits == [l |-> <<0, 0, 0, 0>>, over |-> FALSE]

\* 10 * n + d
MulAdd10(n, d) ==
    LET a1 == 10 * n.l[1] + d
        a2 == 10 * n.l[2] + (a1 \div Limb)
        a3 == 10 * n.l[3] + (a2 \div Limb)
        a4 == 10 * n.l[4] + (a3 \div Limb)
    IN  [l |-> <<a1 % Limb, a2 % Limb, a3 % Limb, a4 % Limb>>,
         over |-> n.over \/ a4 >= Limb]

RECURSIVE DigitsMag(_, _, _)
\* the magnitude of the digits of s from index k on, n being that of those before
DigitsMag(s, k, n) ==
    IF k <= Len(s) /\ isdigit(s[k])
    THEN DigitsMag(s, k + 1, MulAdd10(n, DigitVal(s[k])))
    ELSE n

\* the low 32 bits of a magnitude, read as an int
Low32(n) ==
    IF n.l[2] >= 32768 THEN (n.l[2] - Limb) * Limb + n.l[1]
    ELSE n.l[2] * Limb + n.l[1]

\* the int that is minus the int i, in 32 bits
Neg32(i) == IF i = INT_MIN THEN INT_MIN ELSE 0 - i

\* the number, with its sign, can be held in an int
FitsInt(neg, n) ==
    /\ ~n.over
    /\ n.l[3] = 0
    /\ n.l[4] = 0
    /\ \/ n.l[2] < 32768
       \/ neg /\ n.l[2] = 32768 /\ n.l[1] = 0

\* the number, with its sign, can be held in a long of 64 bits
FitsLong64(neg, n) ==
    /\ ~n.over
    /\ \/ n.l[4] < 32768
       \/ neg /\ n.l[4] = 32768 /\ n.l[3] = 0 /\ n.l[2] = 0 /\ n.l[1] = 0

\* the sizes of long the library can be built for
LongBits == {32, 64}

\* a long: its sign and the limbs of its magnitude
Long(neg, l) == [neg |-> neg /\ l # <<0, 0, 0, 0>>, l |-> l]

\* LONG_MAX and LONG_MIN where long has bits bits
LONG_MAX(bits) ==
    IF bits = 32 THEN Long(FALSE, <<65535, 32767, 0, 0>>)
    ELSE Long(FALSE, <<65535, 65535, 65535, 32767>>)
LONG_MIN(bits) ==
    IF bits = 32 THEN Long(TRUE, <<0, 32768, 0, 0>>)
    ELSE Long(TRUE, <<0, 0, 0, 32768>>)

\* atol(s) is strtol(s, NULL, 10) where long has bits bits: white space, an
\* optional sign, the leading digits; a number out of range gives LONG_MAX
\* or LONG_MIN
atol(s, bits) ==
    LET k == SkipSpace(s, 1)
        neg == At(s, k) = "-"
        d == IF At(s, k) \in {"-", "+"} THEN k + 1 ELSE k
        n == DigitsMag(s, d, NoDigits)
    IN  IF (bits = 32 /\ FitsInt(neg, n)) \/ (bits = 64 /\ FitsLong64(neg, n))
        THEN Long(neg, n.l)
        ELSE IF neg THEN LONG_MIN(bits) ELSE LONG_MAX(bits)

\* x < 0, x <= 0 for a long x
LongNegative(x) == x.neg
LongNotPositive(x) == x.neg \/ x.l = <<0, 0, 0, 0>>

\* x > n for a long x and 0 <= n <= INT_MAX
LongAbove(x, n) ==
    /\ ~x.neg
    /\ \/ x.l[4] > 0
       \/ x.l[3] > 0
       \/ x.l[2] >= 32768
       \/ x.l[2] * Limb + x.l[1] > n

(***************************************************************************)
(* Result of a verifier: the code returned, *err_msg, the attribute's      *)
(* value pointer after the call, and the environment.                      *)
(***************************************************************************)
Ret(code, err_msg, value, env) ==
    [code |-> code, err_msg |-> err_msg, value |-> value, env |-> env,
     returns |-> TRUE]

\* the call never returns
Hang(err_msg, value, env) ==
    [code |-> 0, err_msg |-> err_msg, value |-> value, env |-> env,
     returns |-> FALSE]

verify_value_zero_or_positive(pattr, err_msg, env) ==
    IF pattr.value.null \/ Str(pattr.value) = <<>>
    THEN Ret(PBSE_BADATVAL, err_msg, pattr.value, env)
    ELSE IF LongNegative(atol(Str(pattr.value), env.long_bits))
    THEN Ret(PBSE_BADATVAL, err_msg, pattr.value, env)
    ELSE Ret(PBSE_NONE, err_msg, pattr.value, env)

(***************************************************************************)
(* The grammar parsers verify_value_select calls are outside this file.    *)
(* parse_plus_spec is called with the spec for its first chunk and with    *)
(* NULL for each further chunk (lines 1544 and 1566): plus is what it      *)
(* keeps of the traversal between these calls, the spec and the position   *)
(* after the chunk returned last.                                          *)
(***************************************************************************)
\* parse_plus_spec(selstr, &rc); selstr.null for the resuming call
parse_plus_spec(selstr, plus) ==
    LET buf == IF selstr.null THEN plus.buf ELSE Str(selstr)
        ps0 == IF selstr.null THEN plus.pe ELSE 1
        ps == SkipSpace(buf, ps0)
        nx == strchr(buf, ps, "+")
    IN  IF ~selstr.null /\ buf = <<>>
        THEN [chunk |-> <<>>, isnull |-> TRUE, rc |-> 0, plus |-> plus]
        ELSE IF At(buf, ps0) = "+"
        THEN [chunk |-> <<>>, isnull |-> TRUE, rc |-> PBSE_BADNODESPEC,
              plus |-> [buf |-> buf, pe |-> ps0]]
        ELSE IF At(buf, ps) = NUL
        THEN [chunk |-> <<>>, isnull |-> TRUE, rc |-> 0,
              plus |-> [buf |-> buf, pe |-> ps]]
        ELSE IF nx = 0
        THEN [chunk |-> SubSeq(buf, ps, Len(buf)), isnull |-> FALSE, rc |-> 0,
              plus |-> [buf |-> buf, pe |-> Len(buf) + 1]]
        ELSE [chunk |-> SubSeq(buf, ps, nx - 1), isnull |-> FALSE, rc |-> 0,
              plus |-> [buf |-> buf, pe |-> nx + 1]]

RECURSIVE SplitOn(_, _)
\* the pieces of s between the occurrences of c
SplitOn(s, c) ==
    LET k == strchr(s, 1, c)
    IN  IF k = 0 THEN <<s>>
        ELSE <<SubSeq(s, 1, k - 1)>> \o SplitOn(SubSeq(s, k + 1, Len(s)), c)

IsCount(s) == Len(s) > 0 /\ \A k \in 1..Len(s) : isdigit(s[k])

\* "key=value" with a key and a value
IsPair(s) == LET k == strchr(s, 1, "=") IN k > 1 /\ k < Len(s)

PairOf(s) ==
    LET k == strchr(s, 1, "=")
    IN  [kv_keyw |-> SubSeq(s, 1, k - 1), kv_val |-> SubSeq(s, k + 1, Len(s))]

\* parse_chunk(chunk, &nchk, &nelem, &pkvp, NULL): [count:]key=value[:key=value...]
parse_chunk(chunk) ==
    LET pieces == SplitOn(chunk, ":")
        elems == IF IsCount(pieces[1]) THEN Tail(pieces) ELSE pieces
    IN  IF \A k \in 1..Len(elems) : IsPair(elems[k])
        THEN [rc |-> 0, pkvp |-> [k \in 1..Len(elems) |-> PairOf(elems[k])]]
        ELSE [rc |-> PBSE_BADATVAL, pkvp |-> <<>>]

(***************************************************************************)
(* verify_value_resc and verify_value_select.  They call each other        *)
(* through the definition table: verify_value_select is the value checker  *)
(* of the select resource.                                                 *)
(***************************************************************************)
RECURSIVE verify_value_select(_, _, _)

\* prdef->at_verify_datatype(&resc_attr, err_msg)
at_verify_datatype(fn, resc_attr, err_msg, env) ==
    LET v == Str(resc_attr.value)
        code == CASE fn = "verify_datatype_long" -> verify_datatype_long(v)
                  [] fn = "verify_datatype_string" -> verify_datatype_string(v)
        ev == [op |-> "at_verify_datatype", name |-> Str(resc_attr.name),
               value |-> v, rc |-> code]
    IN  Ret(code, err_msg, resc_attr.value, Logged(env, ev))

\* the result r of a value checker, with the call logged
ValueChecked(resc_attr, r) ==
    [r EXCEPT !.env = Logged(r.env, [op |-> "at_verify_value",
                                     name |-> Str(resc_attr.name),
                                     value |-> Str(resc_attr.value), rc |-> r.code])]

\* prdef->at_verify_value(batch_request, parent_object, cmd, &resc_attr, err_msg)
at_verify_value(fn, resc_attr, err_msg, env) ==
    ValueChecked(resc_attr,
        CASE fn = "verify_value_zero_or_positive" ->
                 verify_value_zero_or_positive(resc_attr, err_msg, env)
          [] fn = "verify_value_select" ->
                 verify_value_select(resc_attr, err_msg, env))

\* a value check that no longer looks at the datatype check's code
RunsValueCheck_IgnoringDatatype(prdef, err_code) == prdef.at_verify_value # NoFunc

\* whether the value checker runs after a datatype check that left err_code
RunsValueCheck(prdef, err_code) == err_code = 0 /\ prdef.at_verify_value # NoFunc

\* if ((err_code == 0) && (prdef->at_verify_value)) err_code = ...,
\* r1 being the state after the datatype check
ThenValue(prdef, resc_attr, r1) ==
    IF RunsValueCheck(prdef, r1.code)
    THEN at_verify_value(prdef.at_verify_value, resc_attr, r1.err_msg, r1.env)
    ELSE r1

\* the datatype check, then the value check when the datatype check passed
\* (err_code is the value the variable holds before the checks)
CheckDatatypeThenValue(prdef, resc_attr, err_code, err_msg, env) ==
    ThenValue(prdef, resc_attr,
        IF prdef.at_verify_datatype # NoFunc
        THEN at_verify_datatype(prdef.at_verify_datatype, resc_attr, err_msg, env)
        ELSE Ret(err_code, err_msg, resc_attr.value, env))

\* the code verify_value_resc returns when malloc of the message fails
RescAllocFailCode == -1

\* if ((err_code != 0) && (*err_msg == NULL)) { ... } return err_code;
\* r being the state after the checks
resc_message(pattr, r) ==
    IF r.code # 0 /\ r.err_msg.isnull /\ pbse_to_txt_known(r.code)
    THEN IF AllocOk(r.env)
         THEN Ret(r.code, Msg(r.code, Str(pattr.name), Str(pattr.resource)),
                  pattr.value, Allocd(r.env))
         ELSE Ret(RescAllocFailCode, r.err_msg, pattr.value, Allocd(r.env))
    ELSE Ret(r.code, r.err_msg, pattr.value, r.env)

\* a lookup that falls back on the first entry of the table when no name matches
resc_lookup_FirstWhenAbsent(resource) ==
    IF ecl_find_resc_def(ecl_svr_resc_def, resource) = 0 THEN 1
    ELSE ecl_find_resc_def(ecl_svr_resc_def, resource)

\* the resource is looked up in ecl_svr_resc_def; an unknown one is accepted
resc_lookup(resource) == ecl_find_resc_def(ecl_svr_resc_def, resource)

verify_value_resc(pattr, err_msg, env) ==
    IF pattr.null THEN Ret(PBSE_INTERNAL, err_msg, NULLPTR, env)
    ELSE IF pattr.resource.null THEN Ret(PBSE_NONE, err_msg, pattr.value, env)
    ELSE IF resc_lookup(Str(pattr.resource)) = 0
    THEN Ret(PBSE_NONE, err_msg, pattr.value, env)
    ELSE resc_message(pattr,
             CheckDatatypeThenValue(ecl_svr_resc_def[resc_lookup(Str(pattr.resource))],
                 Attropl(pattr.resource, NULLPTR, pattr.value), PBSE_NONE, err_msg, env))

\* whether verify_value_select returns the code rc of a pair at once
SelectStopsOn(rc) == rc > 0

RECURSIVE select_for(_, _, _, _, _)

\* the rest of the for loop after verify_value_resc returned r for pair j
select_for_step(pattr, pkvp, j, r) ==
    LET ev == [op |-> "verify_value_resc", name |-> pkvp[j].kv_keyw,
               value |-> pkvp[j].kv_val, rc |-> r.code]
    IN  IF SelectStopsOn(r.code)
        THEN [stop |-> TRUE, code |-> r.code, err_msg |-> r.err_msg,
              env |-> Logged(r.env, ev)]
        ELSE select_for(pattr, pkvp, j + 1, r.err_msg, Logged(r.env, ev))

\* the for loop over the pairs of a chunk, from pair j on
select_for(pattr, pkvp, j, err_msg, env) ==
    IF j > Len(pkvp)
    THEN [stop |-> FALSE, code |-> 0, err_msg |-> err_msg, env |-> env]
    ELSE select_for_step(pattr, pkvp, j,
             verify_value_resc(Attropl(pattr.name, Ptr("pkvp", pkvp[j].kv_keyw),
                                       Ptr("pkvp", pkvp[j].kv_val)),
                               err_msg, env))

RECURSIVE select_while(_, _, _, _)

\* the rest of a turn of the while loop, f being the state after the for loop
select_after_for(pattr, f) ==
    LET nx == parse_plus_spec(NULLPTR, f.env.plus)
        env2 == [f.env EXCEPT !.plus = nx.plus]
    IN  IF f.stop THEN Ret(f.code, f.err_msg, pattr.value, f.env)
        ELSE IF nx.rc # 0 THEN Ret(nx.rc, f.err_msg, pattr.value, env2)
        ELSE IF nx.isnull THEN Ret(PBSE_NONE, f.err_msg, pattr.value, env2)
        ELSE select_while(pattr, nx.chunk, f.err_msg, env2)

\* the while loop over the chunks, chunk being the one parse_plus_spec returned
select_while(pattr, chunk, err_msg, env) ==
    IF parse_chunk(chunk).rc # 0 THEN Ret(PBSE_BADATVAL, err_msg, pattr.value, env)
    ELSE select_after_for(pattr, select_for(pattr, parse_chunk(chunk).pkvp, 1,
                                            err_msg, env))

verify_value_select(pattr, err_msg, env) ==
    IF pattr.value.null \/ Str(pattr.value) = <<>>
    THEN Ret(PBSE_BADATVAL, err_msg, pattr.value, env)
    ELSE
    LET first == parse_plus_spec(pattr.value, env.plus)
        env1 == [env EXCEPT !.plus = first.plus]
    IN  IF first.rc # 0 THEN Ret(first.rc, err_msg, pattr.value, env1)
        ELSE IF first.isnull THEN Ret(PBSE_NONE, err_msg, pattr.value, env1)
        ELSE select_while(pattr, first.chunk, err_msg, env1)

(***************************************************************************)
(* verify_value_preempt_targets.  The state of its two loops: the pass i   *)
(* (0: Resource_List over the caller's buffer, 1: queue over a lower-case  *)
(* copy), the caller's buffer orig and the copy lcase, val and result as   *)
(* indexes into the buffer of the pass, err_code, *err_msg, attrib_found.  *)
(***************************************************************************)
chk_arr == <<ATTR_l, ATTR_queue>>

PassBuf(st) == IF st.i = 0 THEN st.orig ELSE st.lcase
WithPassBuf(st, b) == IF st.i = 0 THEN [st EXCEPT !.orig = b] ELSE [st EXCEPT !.lcase = b]

PreemptRet(st, code, env) ==
    Ret(code, st.err_msg, [st.value EXCEPT !.mem = st.orig], env)

\* the code returned when the check of an entry left err_code # 0 with
\* *err_msg == NULL
PreemptCheckFailed(st, r) ==
    IF pbse_to_txt_known(r.code)
    THEN IF AllocOk(r.env)
         THEN Ret(r.code, Msg(r.code, <<>>, <<>>), [st.value EXCEPT !.mem = st.orig],
                  Allocd(r.env))
         ELSE Ret(PBSE_SYSTEM, r.err_msg, [st.value EXCEPT !.mem = st.orig],
                  Allocd(r.env))
    ELSE Ret(r.code, r.err_msg, [st.value EXCEPT !.mem = st.orig], r.env)

\* whether the check of an entry that left the code err_code and the
\* message err_msg makes the verifier return at once
PreemptReturnsOn(err_code, err_msg) == err_code # 0 /\ err_msg.isnull

RECURSIVE preempt_for(_)
RECURSIVE preempt_while(_)

\* the rest of a turn of the while loop after the checks of an entry, r being
\* the state they left and p the index of the entry's '='
preempt_after_checks(st, p, r) ==
    IF PreemptReturnsOn(r.code, r.err_msg) THEN PreemptCheckFailed(st, r)
    ELSE preempt_while([st EXCEPT !.val = p,
                           !.result = strstr(PassBuf(st), p, chk_arr[st.i + 1]),
                           !.attrib_found = 1, !.err_code = r.code,
                           !.err_msg = r.err_msg, !.env = r.env])

\* one turn of while (result != NULL), and the turns after it
preempt_while(st) ==
    IF st.result = 0 THEN preempt_for([st EXCEPT !.i = @ + 1])
    ELSE
    LET b == PassBuf(st)
        kw == chk_arr[st.i + 1]
        dot == st.result + Len(kw)
        temp == IF st.i = 0 THEN dot + 1 ELSE st.result
        p == strchr(b, temp, "=")
        value == p + 1
        bp == Poke(b, p, NUL)
        name == CStr(bp, temp)
        def == IF st.i = 0 THEN ecl_svr_resc_def ELSE ecl_resv_attr_def
        k == ecl_find_resc_def(def, name)
        q == strchr(bp, value, ",")
        bq == IF q # 0 THEN Poke(bp, q, NUL) ELSE bp
        stq == WithPassBuf(st, bq)
        env1 == Allocd(st.env)
        env2 == Allocd(env1)
        resc_attr == Attropl(Ptr("strdup", name), NULLPTR, Ptr("strdup", CStr(bq, value)))
        ev == [op |-> "entry", name |-> name, value |-> CStr(bq, value), rc |-> st.i]
        again == strstr(b, temp, kw)
    IN  IF st.i = 0 /\ At(b, dot) # "." THEN PreemptRet(st, PBSE_BADATVAL, st.env)
        ELSE IF p = 0 THEN PreemptRet(st, PBSE_BADATVAL, st.env)
        ELSE IF k = 0
        THEN IF again = st.result
             THEN Hang(st.err_msg, st.value, st.env)
             ELSE preempt_while([st EXCEPT !.result = again, !.attrib_found = 1])
        ELSE IF ~AllocOk(st.env) THEN PreemptRet(stq, PBSE_SYSTEM, env1)
        ELSE IF ~AllocOk(env1) THEN PreemptRet(stq, PBSE_SYSTEM, env2)
        ELSE preempt_after_checks(st, p,
                 CheckDatatypeThenValue(def[k], resc_attr, st.err_code, st.err_msg,
                                        Logged(env2, ev)))

\* an end of the function that forgets the attrib_found test
PreemptEndCode_NoFoundTest(attrib_found, err_code) == err_code

\* if (attrib_found == 0) err_code = PBSE_BADATVAL; return err_code;
PreemptEndCode(attrib_found, err_code) ==
    IF attrib_found = 0 THEN PBSE_BADATVAL ELSE err_code

\* the body of for (i = 0; chk_arr[i] != NULL; i++) before its while loop,
\* and the end of the function after the last pass
preempt_for(st) ==
    IF st.i = 0
    THEN preempt_while([st EXCEPT !.val = st.value.at,
             !.result = strstr(st.orig, st.value.at, ATTR_l),
             !.env = Logged(st.env, [op |-> "strstr", name |-> ATTR_l,
                                     value |-> CStr(st.orig, st.value.at), rc |-> 0])])
    ELSE IF st.i = 1
    THEN IF ~AllocOk(st.env) THEN PreemptRet(st, PBSE_SYSTEM, Allocd(st.env))
         ELSE LET lc == LowerStr(CStr(st.orig, st.val))
              IN  preempt_while([st EXCEPT !.lcase = lc, !.val = 1,
                      !.result = strstr(lc, 1, ATTR_queue),
                      !.env = Logged(Allocd(st.env),
                                     [op |-> "strstr", name |-> ATTR_queue,
                                      value |-> lc, rc |-> 1])])
    ELSE PreemptRet(st, PreemptEndCode(st.attrib_found, st.err_code), st.env)

\* a NONE test that stops at the four characters compared by strncasecmp
NoneCode_PrefixOnly(s) == PBSE_NONE

\* the code returned for a value s that starts with "NONE", whatever the case
NoneCode(s) == IF strcasecmp_eq(s, TARGET_NONE) THEN PBSE_NONE ELSE PBSE_BADATVAL

verify_value_preempt_targets(pattr, err_msg, env) ==
    IF pattr.value.null \/ Str(pattr.value) = <<>>
    THEN Ret(PBSE_BADATVAL, err_msg, pattr.value, env)
    ELSE
    LET val == SkipSpace(pattr.value.mem, pattr.value.at)
        s == CStr(pattr.value.mem, val)
    IN  IF strncasecmp_eq(s, TARGET_NONE, Len(TARGET_NONE))
        THEN Ret(NoneCode(s), err_msg, pattr.value, env)
        ELSE preempt_for([i |-> 0, orig |-> pattr.value.mem, lcase |-> <<>>,
                          value |-> pattr.value, val |-> val, result |-> 0,
                          err_code |-> PBSE_NONE, err_msg |-> err_msg,
                          attrib_found |-> 0, env |-> env])

(***************************************************************************)
(* verify_value_dependlist, verify_value_path: the verifiers that replace  *)
(* the value.  parse_depend_list and prepare_path are outside this file.   *)
(***************************************************************************)
S_after == <<"a","f","t","e","r">>
S_svr == <<".","s","v","r">>
S_host == <<"h","o","s","t">>

RECURSIVE JoinWith(_, _)
JoinWith(pieces, c) ==
    IF Len(pieces) = 0 THEN <<>>
    ELSE IF Len(pieces) = 1 THEN pieces[1]
    ELSE pieces[1] \o <<c>> \o JoinWith(Tail(pieces), c)

\* parse_depend_list(list, &rtn_list, rtn_size): after:<jobid>[:<jobid>...];
\* a job id without a server part gets the default server's
parse_depend_list(list) ==
    LET pieces == SplitOn(list, ":")
        ids == Tail(pieces)
        full(id) == IF strchr(id, 1, ".") = 0 THEN id \o S_svr ELSE id
    IN  IF pieces[1] = S_after /\ Len(ids) > 0
           /\ \A k \in 1..Len(ids) : Len(ids[k]) > 0 /\ isdigit(ids[k][1])
        THEN [rc |-> 0,
              out |-> JoinWith(<<S_after>> \o [k \in 1..Len(ids) |-> full(ids[k])], ":")]
        ELSE [rc |-> 1, out |-> <<>>]

\* the code verify_value_dependlist returns when malloc of the buffer fails
DependAllocFailCode == -1

verify_value_dependlist(pattr, err_msg, env) ==
    IF pattr.value.null \/ Str(pattr.value) = <<>>
    THEN Ret(PBSE_BADATVAL, err_msg, pattr.value, env)
    ELSE IF ~AllocOk(env)
    THEN Ret(DependAllocFailCode, err_msg, pattr.value, Allocd(env))
    ELSE
    LET d == parse_depend_list(Str(pattr.value))
    IN  IF d.rc # 0 THEN Ret(PBSE_BADATVAL, err_msg, pattr.value, Allocd(env))
        ELSE Ret(PBSE_NONE, err_msg, Ptr("pdepend", d.out), Allocd(env))

\* prepare_path(path_in, path_out): [host:]path becomes host:path
prepare_path(path_in) ==
    LET c == strchr(path_in, 1, ":")
        host == IF c = 0 THEN S_host ELSE SubSeq(path_in, 1, c - 1)
        path == IF c = 0 THEN path_in ELSE SubSeq(path_in, c + 1, Len(path_in))
    IN  IF Len(host) = 0 \/ Len(path) = 0 \/ \E k \in 1..Len(path) : isspace(path[k])
        THEN [rc |-> 1, out |-> <<>>]
        ELSE [rc |-> 0, out |-> host \o <<":">> \o path]

\* the code verify_value_path returns when malloc of path_out fails
PathAllocFailCode == PBSE_SYSTEM

verify_value_path(pattr, err_msg, env) ==
    IF ~AllocOk(env)
    THEN Ret(PathAllocFailCode, err_msg, pattr.value, Allocd(env))
    ELSE IF pattr.value.null \/ Str(pattr.value) = <<>>
    THEN Ret(PBSE_BADATVAL, err_msg, pattr.value, Allocd(env))
    ELSE
    LET d == prepare_path(Str(pattr.value))
    IN  IF d.rc # 0 THEN Ret(PBSE_BADATVAL, err_msg, pattr.value, Allocd(env))
        ELSE Ret(PBSE_NONE, err_msg, Ptr("path_out", d.out), Allocd(env))

(***************************************************************************)
(* verify_value_mailpoints                                                 *)
(***************************************************************************)
\* batch request types (batch_request.h), by name
PBS_BATCH_QueueJob == "PBS_BATCH_QueueJob"
PBS_BATCH_SubmitResv == "PBS_BATCH_SubmitResv"
PBS_BATCH_ModifyJob == "PBS_BATCH_ModifyJob"
PBS_BATCH_StatusJob == "PBS_BATCH_StatusJob"
PBS_BATCH_SelectJobs == "PBS_BATCH_SelectJobs"

\* the request kinds the verifiers tell apart, and one they do not
BatchRequests ==
    {PBS_BATCH_QueueJob, PBS_BATCH_SubmitResv, PBS_BATCH_ModifyJob,
     PBS_BATCH_StatusJob, PBS_BATCH_SelectJobs}

\* the value pointer after while (isspace(*pattr->value)) pattr->value++
MailpointsSkip(value) == [value EXCEPT !.at = SkipSpace(value.mem, value.at)]

verify_value_mailpoints(batch_request, pattr, err_msg, env) ==
    IF pattr.value.null \/ Str(pattr.value) = <<>>
    THEN Ret(PBSE_BADATVAL, err_msg, pattr.value, env)
    ELSE
    LET value == MailpointsSkip(pattr.value)
        s == Str(value)
        legal == IF batch_request = PBS_BATCH_SubmitResv
                 THEN {"a", "b", "e", "c"} ELSE {"a", "b", "e"}
    IN  IF s = <<>> THEN Ret(PBSE_BADATVAL, err_msg, value, env)
        ELSE IF s # <<"n">> /\ \E k \in 1..Len(s) : s[k] \notin legal
        THEN Ret(PBSE_BADATVAL, err_msg, value, env)
        ELSE Ret(PBSE_NONE, err_msg, value, env)

(***************************************************************************)
(* verify_value_mgr_opr_acl_check, in the build with PBS_SECURITY == KRB5  *)
(* and in the build without.  get_fullhostname is outside this file: a     *)
(* resolver that knows two hosts.                                          *)
(***************************************************************************)
S_fqdn == <<"n","1",".","d">>
S_short == <<"n","1">>

\* get_fullhostname(shortname, namebuf, bufsize): rc 0 and the full name
get_fullhostname(shortname) ==
    IF LowerStr(shortname) \in {S_fqdn, S_short}
    THEN [rc |-> 0, namebuf |-> S_fqdn]
    ELSE [rc |-> 1, namebuf |-> <<>>]

\* the code verify_value_mgr_opr_acl_check returns when strdup fails
AclAllocFailCode == -1

\* char hostname[PBS_MAXHOSTNAME + 1]
PBS_MAXHOSTNAME == 64

\* the bytes that may lie just before the copy of the value in memory
BytesBefore == {" ", "x"}

\* *p as the loop of line 1385 reads it.  With p before dup_val the read is
\* outside the allocation: it finds the byte pre that happens to be there,
\* and before that byte one that is no space.
AclAt(dup, p, pre) == IF p >= 1 THEN At(dup, p) ELSE IF p = 0 THEN pre ELSE NUL

RECURSIVE acl_back(_, _, _, _)
\* while (*--p == ' ' && p != token); with p already decremented once
acl_back(dup, p, token, pre) ==
    IF AclAt(dup, p, pre) = " " /\ p # token THEN acl_back(dup, p - 1, token, pre) ELSE p

RECURSIVE acl_front(_, _)
acl_front(dup, token) == IF At(dup, token) = " " THEN acl_front(dup, token + 1) ELSE token

\* *entry == '*': the host part starts with the wildcard character
IsWildcard(dup, entry) == At(dup, entry) = "*"

RECURSIVE acl_while(_, _, _, _, _)

\* where the function stands: at its end with the code err, or about to
\* call get_fullhostname for the host part at index entry of dup
AclEnd(err, env) ==
    [wait |-> FALSE, err |-> err, env |-> env, dup |-> <<>>, entry |-> 0, comma |-> 0]
AclWait(dup, entry, comma, env) ==
    [wait |-> TRUE, err |-> PBSE_NONE, env |-> env, dup |-> dup, entry |-> entry,
     comma |-> comma]

\* the end of a turn of the loop whose entry passed: token = NULL, or the
\* text after the comma
acl_next(dup, comma, pre, env) ==
    IF comma = 0 THEN AclEnd(PBSE_NONE, env)
    ELSE acl_while(dup, comma + 1, strchr(dup, comma + 1, ","), pre, env)

\* the check of the host part at index entry of dup, full being what
\* get_fullhostname returned for it
acl_host(dup, entry, comma, pre, env, full) ==
    LET ev == [op |-> "get_fullhostname", name |-> CStr(dup, entry),
               value |-> full.namebuf, rc |-> full.rc]
    IN  IF full.rc # 0 \/ ~strncasecmp_eq(CStr(dup, entry), full.namebuf, PBS_MAXHOSTNAME)
        THEN AclEnd(PBSE_BADHOST, Logged(env, ev))
        ELSE acl_next(dup, comma, pre, Logged(env, ev))

\* the turn of the loop on the entry whose text, trimmed, starts at token,
\* up to the call of get_fullhostname
acl_entry(dup, token, comma, pre, env) ==
    IF strchr(dup, token, "@") = 0 THEN AclEnd(PBSE_BADHOST, env)
    ELSE IF ~IsWildcard(dup, strchr(dup, token, "@") + 1)
    THEN AclWait(dup, strchr(dup, token, "@") + 1, comma, env)
    ELSE acl_next(dup, comma, pre, env)

\* the buffer after *(p + 1) = 0; a write before the buffer leaves it as it is
acl_cut(dup, p) == IF p + 1 >= 1 /\ p + 1 <= Len(dup) THEN Poke(dup, p + 1, NUL) ELSE dup

\* while (token), up to the next call of get_fullhostname or to its end
acl_while(dup, token0, comma, pre, env) ==
    LET pend == IF comma # 0 THEN comma ELSE CEnd(dup, token0)
        d1 == acl_cut(dup, acl_back(dup, pend - 1, token0, pre))
    IN  acl_entry(d1, acl_front(d1, token0), comma, pre, env)

\* the function from its entry to its first call of get_fullhostname, or to
\* its end when it makes none; #if PBS_SECURITY == KRB5 it returns PBSE_NONE
\* before any test
verify_value_mgr_opr_acl_check(pattr, err_msg, env, pre) ==
    IF env.krb5
    THEN AclEnd(PBSE_NONE, env)
    ELSE IF pattr.value.null \/ Str(pattr.value) = <<>>
    THEN AclEnd(PBSE_BADATVAL, env)
    ELSE IF ~AllocOk(env)
    THEN AclEnd(AclAllocFailCode, Allocd(env))
    ELSE acl_while(Str(pattr.value), 1, strchr(Str(pattr.value), 1, ","), pre,
                   Allocd(env))

\* the function from the return of get_fullhostname to its next call, or to
\* the end
acl_resume(a, pre) ==
    acl_host(a.dup, a.entry, a.comma, pre, a.env,
             get_fullhostname(CStr(a.dup, a.entry)))

(***************************************************************************)
(* verify_value_hold                                                       *)
(***************************************************************************)
\* how many characters of s are c
CountOf(s, c) == Cardinality({k \in 1..Len(s) : s[k] = c})

HoldChars == {"u", "o", "s", "p", "n"}

\* the tests after the loop without the one on p_cnt
HoldConflict_NoPTest(u_cnt, o_cnt, s_cnt, p_cnt, n_cnt) ==
    n_cnt # 0 /\ (u_cnt + o_cnt + s_cnt + p_cnt) # 0

\* the tests after the loop without the one on n_cnt
HoldConflict_NoNTest(u_cnt, o_cnt, s_cnt, p_cnt, n_cnt) ==
    p_cnt # 0 /\ (u_cnt + o_cnt + s_cnt + n_cnt) # 0

\* the two tests after the loop: n with any other letter, p with any other
HoldConflict(u_cnt, o_cnt, s_cnt, p_cnt, n_cnt) ==
    \/ n_cnt # 0 /\ (u_cnt + o_cnt + s_cnt + p_cnt) # 0
    \/ p_cnt # 0 /\ (u_cnt + o_cnt + s_cnt + n_cnt) # 0

verify_value_hold(batch_request, pattr, err_msg, env) ==
    IF pattr.value.null \/ Str(pattr.value) = <<>>
    THEN Ret(PBSE_BADATVAL, err_msg, pattr.value, env)
    ELSE IF \E k \in 1..Len(Str(pattr.value)) : Str(pattr.value)[k] \notin HoldChars
    THEN Ret(PBSE_BADATVAL, err_msg, pattr.value, env)
    ELSE IF HoldConflict(CountOf(Str(pattr.value), "u"), CountOf(Str(pattr.value), "o"),
                         CountOf(Str(pattr.value), "s"), CountOf(Str(pattr.value), "p"),
                         CountOf(Str(pattr.value), "n"))
    THEN Ret(PBSE_BADATVAL, err_msg, pattr.value, env)
    ELSE Ret(PBSE_NONE, err_msg, pattr.value, env)


(***************************************************************************)
(* verify_value_priority.  atoi is (int) strtol(nptr, NULL, 10): the       *)
(* digits are accumulated in a long and the result is cast to int.  A      *)
(* number that does not fit in an int is undefined for atoi: where long    *)
(* has 64 bits the low 32 bits of strtol's result come back, where long    *)
(* has 32 bits strtol's result is INT_MAX or INT_MIN.                      *)
(***************************************************************************)
\* atoi(s) where long has bits bits
atoi(s, bits) ==
    LET k == SkipSpace(s, 1)
        neg == At(s, k) = "-"
        d == IF At(s, k) \in {"-", "+"} THEN k + 1 ELSE k
        n == DigitsMag(s, d, NoDigits)
    IN  IF FitsInt(neg, n) THEN (IF neg THEN Neg32(Low32(n)) ELSE Low32(n))
        ELSE IF bits = 32 THEN (IF neg THEN INT_MIN ELSE INT_MAX)
        ELSE IF ~FitsLong64(neg, n) THEN (IF neg THEN 0 ELSE 0 - 1)
        ELSE IF neg THEN Neg32(Low32(n)) ELSE Low32(n)

verify_value_priority(batch_request, pattr, err_msg, env, bits) ==
    IF pattr.value.null \/ Str(pattr.value) = <<>>
    THEN Ret(PBSE_BADATVAL, err_msg, pattr.value, env)
    ELSE IF atoi(Str(pattr.value), bits) < 0 - 1024 \/ atoi(Str(pattr.value), bits) > 1023
    THEN IF batch_request = PBS_BATCH_SelectJobs
         THEN Ret(PBSE_NONE, err_msg, pattr.value, env)
         ELSE Ret(PBSE_BADATVAL, err_msg, pattr.value, env)
    ELSE Ret(PBSE_NONE, err_msg, pattr.value, env)


(***************************************************************************)
(* verify_value_checkpoint.  It is the one verifier that reads pattr->op.  *)
(***************************************************************************)
\* enum batch_op values the verifier tells apart (EQ, NE) and two others
EQ == "EQ"
NE == "NE"
BatchOps == {"SET", EQ, NE, "GT"}

\* the attribute with its comparison operator
WithOp(pattr, op) == pattr @@ ("op" :> op)

\* a one-letter value without 'u'
CheckpointLetters_NoU == {"n", "s", "c", "w"}

\* the one-letter values
CheckpointLetters == {"n", "s", "c", "w", "u"}

\* the index where while (isdigit(*pc)) pc++ stops, from index k
SkipDigits(s, k) == Min({j \in k..(Len(s) + 1) : ~isdigit(At(s, j))})

\* the tests under batch_request == PBS_BATCH_SelectJobs, pc pointing at rest
checkpoint_select(batch_request, pattr, rest, err_msg, env) ==
    IF batch_request = PBS_BATCH_SelectJobs /\ rest = <<"u">> /\ pattr.op # EQ /\ pattr.op # NE
    THEN Ret(PBSE_BADATVAL, err_msg, pattr.value, env)
    ELSE Ret(PBSE_NONE, err_msg, pattr.value, env)

verify_value_checkpoint(batch_request, pattr, err_msg, env) ==
    IF pattr.value.null \/ Str(pattr.value) = <<>>
    THEN Ret(PBSE_BADATVAL, err_msg, pattr.value, env)
    ELSE
    LET val == Str(pattr.value)
    IN  IF Len(val) = 1
        THEN IF val[1] \notin CheckpointLetters
             THEN Ret(PBSE_BADATVAL, err_msg, pattr.value, env)
             ELSE checkpoint_select(batch_request, pattr, val, err_msg, env)
        ELSE IF (val[1] # "c" /\ val[1] # "w") \/ val[2] # "="
        THEN Ret(PBSE_BADATVAL, err_msg, pattr.value, env)
        ELSE IF At(val, 3) = NUL
        THEN Ret(PBSE_BADATVAL, err_msg, pattr.value, env)
        ELSE IF At(val, SkipDigits(val, 3)) # NUL
        THEN Ret(PBSE_BADATVAL, err_msg, pattr.value, env)
        ELSE checkpoint_select(batch_request, pattr,
                               CStr(val, SkipDigits(val, 3)), err_msg, env)


(***************************************************************************)
(* verify_value_queue_type                                                 *)
(***************************************************************************)
\* char *name[2] = {"Execution", "Route"}
QueueTypeNames == << <<"E","x","e","c","u","t","i","o","n">>, <<"R","o","u","t","e">> >>

\* a comparison over the length of the literal instead of that of the value
queue_type_match_LiteralLength(name, value) == strncasecmp_eq(name, value, Len(name))

\* strncasecmp(name[i], pattr->value, strlen(pattr->value)) == 0
queue_type_match(name, value) == strncasecmp_eq(name, value, Len(value))

verify_value_queue_type(batch_request, pattr, err_msg, env) ==
    IF pattr.value.null \/ Str(pattr.value) = <<>>
    THEN Ret(PBSE_BADATVAL, err_msg, pattr.value, env)
    ELSE IF \E i \in 1..Len(QueueTypeNames) :
                queue_type_match(QueueTypeNames[i], Str(pattr.value))
    THEN Ret(PBSE_NONE, err_msg, pattr.value, env)
    ELSE Ret(PBSE_BADATVAL, err_msg, pattr.value, env)


(***************************************************************************)
(* The verifiers of one attribute value each.  The list, range, name and   *)
(* stage-list parsers they call (parse_at_list, chk_Jrange,                *)
(* check_job_name, parse_stage_list) are outside this file: ext is the     *)
(* code the parser returns for the value.                                  *)
(***************************************************************************)
PBSE_ATVALERANGE == 15080
PBSE_JOBNBIG == 15083
PBSE_LICENSE_MIN_BADVAL == 15091
PBSE_LICENSE_MAX_BADVAL == 15092
PBSE_LICENSE_LINGER_BADVAL == 15093

\* static long ecl_pbs_max_licenses = PBS_MAX_LICENSING_LICENSES
ecl_pbs_max_licenses == 10000000

\* (pattr->value == NULL) || (pattr->value[0] == '\0')
NoValue(pattr) == pattr.value.null \/ Str(pattr.value) = <<>>

\* the result of a verifier that touches neither *err_msg nor the value
Code(code, pattr, err_msg, env) == Ret(code, err_msg, pattr.value, env)

verify_value_user_list(batch_request, pattr, err_msg, env, ext) ==
    IF NoValue(pattr) THEN Code(PBSE_BADATVAL, pattr, err_msg, env)
    ELSE IF ext # 0 THEN Code(PBSE_BADATVAL, pattr, err_msg, env)
    ELSE Code(PBSE_NONE, pattr, err_msg, env)

verify_value_authorized_users(batch_request, pattr, err_msg, env, ext) ==
    IF NoValue(pattr) THEN Code(PBSE_BADATVAL, pattr, err_msg, env)
    ELSE IF ext # 0 THEN Code(PBSE_BADATVAL, pattr, err_msg, env)
    ELSE Code(PBSE_NONE, pattr, err_msg, env)

verify_value_jrange(batch_request, pattr, err_msg, env, ext) ==
    IF NoValue(pattr) THEN Code(PBSE_BADATVAL, pattr, err_msg, env)
    ELSE IF ext = 1 THEN Code(PBSE_BADATVAL, pattr, err_msg, env)
    ELSE IF ext = 2 THEN Code(PBSE_ATVALERANGE, pattr, err_msg, env)
    ELSE Code(PBSE_NONE, pattr, err_msg, env)

\* an empty job name accepted under no request
EmptyJobnameCode_Never(batch_request) == PBSE_BADATVAL

\* the code for an empty job name
EmptyJobnameCode(batch_request) ==
    IF batch_request \in {PBS_BATCH_StatusJob, PBS_BATCH_SelectJobs}
    THEN PBSE_NONE ELSE PBSE_BADATVAL

verify_value_jobname(batch_request, pattr, err_msg, env, ext) ==
    IF pattr.value.null THEN Code(PBSE_BADATVAL, pattr, err_msg, env)
    ELSE IF Str(pattr.value) = <<>>
    THEN Code(EmptyJobnameCode(batch_request), pattr, err_msg, env)
    ELSE IF ext = -1 THEN Code(PBSE_BADATVAL, pattr, err_msg, env)
    ELSE IF ext = -2 THEN Code(PBSE_JOBNBIG, pattr, err_msg, env)
    ELSE Code(PBSE_NONE, pattr, err_msg, env)

verify_value_joinpath(batch_request, pattr, err_msg, env) ==
    IF NoValue(pattr) THEN Code(PBSE_BADATVAL, pattr, err_msg, env)
    ELSE IF Str(pattr.value) \notin {<<"o","e">>, <<"e","o">>, <<"n">>}
    THEN Code(PBSE_BADATVAL, pattr, err_msg, env)
    ELSE Code(PBSE_NONE, pattr, err_msg, env)

verify_value_keepfiles(batch_request, pattr, err_msg, env) ==
    IF NoValue(pattr) THEN Code(PBSE_BADATVAL, pattr, err_msg, env)
    ELSE IF Str(pattr.value) \notin {<<"o">>, <<"e">>, <<"o","e">>, <<"e","o">>, <<"n">>}
    THEN Code(PBSE_BADATVAL, pattr, err_msg, env)
    ELSE Code(PBSE_NONE, pattr, err_msg, env)

verify_value_mailusers(batch_request, pattr, err_msg, env, ext) ==
    IF NoValue(pattr) THEN Code(PBSE_BADATVAL, pattr, err_msg, env)
    ELSE IF ext # 0 THEN Code(PBSE_BADATVAL, pattr, err_msg, env)
    ELSE Code(PBSE_NONE, pattr, err_msg, env)

verify_value_shellpathlist(batch_request, pattr, err_msg, env, ext) ==
    IF NoValue(pattr) THEN Code(PBSE_BADATVAL, pattr, err_msg, env)
    ELSE IF ext # 0 THEN Code(PBSE_BADATVAL, pattr, err_msg, env)
    ELSE Code(PBSE_NONE, pattr, err_msg, env)

verify_value_sandbox(batch_request, pattr, err_msg, env) ==
    IF NoValue(pattr) THEN Code(PBSE_BADATVAL, pattr, err_msg, env)
    ELSE IF \A lit \in {<<"H","O","M","E">>,
                        <<"O","_","W","O","R","K","D","I","R">>,
                        <<"P","R","I","V","A","T","E">>} :
                ~strcasecmp_eq(Str(pattr.value), lit)
    THEN Code(PBSE_BADATVAL, pattr, err_msg, env)
    ELSE Code(PBSE_NONE, pattr, err_msg, env)

verify_value_stagelist(batch_request, pattr, err_msg, env, ext) ==
    IF NoValue(pattr) THEN Code(PBSE_BADATVAL, pattr, err_msg, env)
    ELSE IF ext # 0 THEN Code(PBSE_BADATVAL, pattr, err_msg, env)
    ELSE Code(PBSE_NONE, pattr, err_msg, env)

\* PBS_CREDNAME_AES, PBS_CREDNAME_DCE_KRB5, PBS_CREDNAME_KRB5, PBS_CREDNAME_GRIDPROXY
cred_list ==
    { <<"a","e","s">>, <<"d","c","e","_","k","r","b","5">>,
      <<"k","r","b","5">>, <<"g","r","i","d","p","r","o","x","y">> }

verify_value_credname(batch_request, pattr, err_msg, env) ==
    IF NoValue(pattr) THEN Code(PBSE_BADATVAL, pattr, err_msg, env)
    ELSE IF Str(pattr.value) \in cred_list THEN Code(PBSE_NONE, pattr, err_msg, env)
    ELSE Code(PBSE_BADATVAL, pattr, err_msg, env)

verify_value_non_zero_positive(batch_request, pattr, err_msg, env) ==
    IF NoValue(pattr) THEN Code(PBSE_BADATVAL, pattr, err_msg, env)
    ELSE IF LongNotPositive(atol(Str(pattr.value), env.long_bits))
    THEN Code(PBSE_BADATVAL, pattr, err_msg, env)
    ELSE Code(PBSE_NONE, pattr, err_msg, env)

verify_value_minlicenses(batch_request, pattr, err_msg, env) ==
    IF NoValue(pattr) THEN Code(PBSE_BADATVAL, pattr, err_msg, env)
    ELSE IF \/ LongNegative(atol(Str(pattr.value), env.long_bits))
            \/ LongAbove(atol(Str(pattr.value), env.long_bits), ecl_pbs_max_licenses)
    THEN Code(PBSE_LICENSE_MIN_BADVAL, pattr, err_msg, env)
    ELSE Code(PBSE_NONE, pattr, err_msg, env)

verify_value_maxlicenses(batch_request, pattr, err_msg, env) ==
    IF NoValue(pattr) THEN Code(PBSE_BADATVAL, pattr, err_msg, env)
    ELSE IF \/ LongNegative(atol(Str(pattr.value), env.long_bits))
            \/ LongAbove(atol(Str(pattr.value), env.long_bits), ecl_pbs_max_licenses)
    THEN Code(PBSE_LICENSE_MAX_BADVAL, pattr, err_msg, env)
    ELSE Code(PBSE_NONE, pattr, err_msg, env)

verify_value_licenselinger(batch_request, pattr, err_msg, env) ==
    IF NoValue(pattr) THEN Code(PBSE_BADATVAL, pattr, err_msg, env)
    ELSE IF LongNotPositive(atol(Str(pattr.value), env.long_bits))
    THEN Code(PBSE_LICENSE_LINGER_BADVAL, pattr, err_msg, env)
    ELSE Code(PBSE_NONE, pattr, err_msg, env)

\* the one-letter job states
StateChars == {"E", "H", "Q", "R", "T", "W", "S", "U", "B", "X", "F", "M"}

verify_value_state(batch_request, pattr, err_msg, env) ==
    IF pattr.value.null THEN Code(PBSE_BADATVAL, pattr, err_msg, env)
    ELSE IF Str(pattr.value) = <<>> /\ batch_request # PBS_BATCH_StatusJob
    THEN Code(PBSE_BADATVAL, pattr, err_msg, env)
    ELSE IF \E k \in 1..Len(Str(pattr.value)) : Str(pattr.value)[k] \notin StateChars
    THEN Code(PBSE_BADATVAL, pattr, err_msg, env)
    ELSE Code(PBSE_NONE, pattr, err_msg, env)

\* the verifiers above, as the caller reaches them through a table of
\* function pointers
ScalarVerifiers ==
    {"verify_value_user_list", "verify_value_authorized_users", "verify_value_jrange",
     "verify_value_jobname", "verify_value_joinpath", "verify_value_keepfiles",
     "verify_value_mailusers", "verify_value_shellpathlist", "verify_value_sandbox",
     "verify_value_stagelist", "verify_value_credname", "verify_value_zero_or_positive",
     "verify_value_non_zero_positive", "verify_value_minlicenses",
     "verify_value_maxlicenses", "verify_value_licenselinger", "verify_value_state"}

\* the codes the parser a verifier calls can return: 0 and the codes the
\* verifier tells apart
ParserCodes(fn) ==
    CASE fn \in {"verify_value_user_list", "verify_value_authorized_users",
                 "verify_value_mailusers", "verify_value_shellpathlist",
                 "verify_value_stagelist"} -> {0, 1}
      [] fn = "verify_value_jrange" -> {0, 1, 2}
      [] fn = "verify_value_jobname" -> {0, -1, -2}
      [] OTHER -> {0}

\* pfn(batch_request, parent_object, cmd, pattr, err_msg)
at_verify_scalar(fn, b, p, m, e, ext) ==
    CASE fn = "verify_value_user_list" -> verify_value_user_list(b, p, m, e, ext)
      [] fn = "verify_value_authorized_users" -> verify_value_authorized_users(b, p, m, e, ext)
      [] fn = "verify_value_jrange" -> verify_value_jrange(b, p, m, e, ext)
      [] fn = "verify_value_jobname" -> verify_value_jobname(b, p, m, e, ext)
      [] fn = "verify_value_joinpath" -> verify_value_joinpath(b, p, m, e)
      [] fn = "verify_value_keepfiles" -> verify_value_keepfiles(b, p, m, e)
      [] fn = "verify_value_mailusers" -> verify_value_mailusers(b, p, m, e, ext)
      [] fn = "verify_value_shellpathlist" -> verify_value_shellpathlist(b, p, m, e, ext)
      [] fn = "verify_value_sandbox" -> verify_value_sandbox(b, p, m, e)
      [] fn = "verify_value_stagelist" -> verify_value_stagelist(b, p, m, e, ext)
      [] fn = "verify_value_credname" -> verify_value_credname(b, p, m, e)
      [] fn = "verify_value_zero_or_positive" -> verify_value_zero_or_positive(p, m, e)
      [] fn = "verify_value_non_zero_positive" -> verify_value_non_zero_positive(b, p, m, e)
      [] fn = "verify_value_minlicenses" -> verify_value_minlicenses(b, p, m, e)
      [] fn = "verify_value_maxlicenses" -> verify_value_maxlicenses(b, p, m, e)
      [] fn = "verify_value_licenselinger" -> verify_value_licenselinger(b, p, m, e)
      [] fn = "verify_value_state" -> verify_value_state(b, p, m, e)


(***************************************************************************)
(* The inputs of the calls.  Values are built from pieces that reach each  *)
(* branch of the verifiers; the bounds limit how many pieces are joined.   *)
(***************************************************************************)
MaxParts == 3
MaxEntries == 2
MaxFailAt == 3

RECURSIVE SeqsUpTo(_, _)
\* the non-empty sequences of at most n elements of S
SeqsUpTo(S, n) ==
    IF n = 0 THEN {}
    ELSE LET shorter == SeqsUpTo(S, n - 1)
         IN  {<<x>> : x \in S} \cup shorter \cup {s \o <<x>> : s \in shorter, x \in S}

RECURSIVE Concat(_)
Concat(ss) == IF Len(ss) = 0 THEN <<>> ELSE ss[1] \o Concat(Tail(ss))

\* resource=value pairs of a selection spec
SelectPairs ==
    { <<"n","c","p","u","s","=","1">>,
      <<"n","c","p","u","s","=","-","1">>,
      <<"n","c","p","u","s","=","x">>,
      <<"f","o","o","=","1">> }

\* a selection spec: pairs, each after the first led by ':' (same chunk) or
\* '+' (next chunk)
SelectLed == SelectPairs \cup {<<c>> \o s : c \in {":", "+"}, s \in SelectPairs}

IsSelectSpec(ss) ==
    /\ ss[1] \in SelectPairs
    /\ \A k \in 2..Len(ss) : ss[k] \notin SelectPairs

\* specs with a count, without '=', with an empty chunk, with a nested select
SelectOdd ==
    { <<>>,
      <<"2",":","n","c","p","u","s","=","1","+","1",":","f","o","o","=","1">>,
      <<"n","c","p","u","s">>,
      <<"n","c","p","u","s","=","1","+","n","c","p","u","s">>,
      <<"+","n","c","p","u","s","=","1">>,
      <<"f","o","o","=","1","+","+","n","c","p","u","s","=","x">>,
      <<" ","f","o","o","=","1","+","n","c","p","u","s","=","-","1">>,
      <<"s","e","l","e","c","t","=","n","c","p","u","s","=","-","1","+","n","c","p","u","s","=","x">> }

SelectValues ==
    {Concat(ss) : ss \in {s \in SeqsUpTo(SelectLed, MaxParts) : IsSelectSpec(s)}}
    \cup SelectOdd

\* entries of a preempt_targets value
PreemptEntries ==
    { <<"R","e","s","o","u","r","c","e","_","L","i","s","t",".","n","c","p","u","s","=","1">>,
      <<"R","e","s","o","u","r","c","e","_","L","i","s","t",".","n","c","p","u","s","=","x">>,
      <<"R","e","s","o","u","r","c","e","_","L","i","s","t",".","n","c","p","u","s","=","-","1">>,
      <<"R","e","s","o","u","r","c","e","_","L","i","s","t",".","f","o","o","=","1">>,
      <<"R","e","s","o","u","r","c","e","_","L","i","s","t","n","c","p","u","s","=","1">>,
      <<"R","e","s","o","u","r","c","e","_","L","i","s","t",".","n","c","p","u","s">>,
      <<"R","e","s","o","u","r","c","e","_","L","i","s","t",".","s","e","l","e","c","t","=","n","c","p","u","s","=","-","1">>,
      <<"R","e","s","o","u","r","c","e","_","L","i","s","t",".","s","e","l","e","c","t","=","n","c","p","u","s","=","1">>,
      <<"q","u","e","u","e","=","q","1">>,
      <<"Q","U","E","U","E","=","Q","1">>,
      <<"q","u","e","u","e","=">>,
      <<"Q","u","e","u","e">>,
      <<"q","u","e","u","e","f","o","o","=","1">>,
      <<"x","=","1">> }
\* the NONE forms and values with leading white space
PreemptOdd ==
    { <<>>,
      <<"N","O","N","E">>,
      <<"n","o","n","e">>,
      <<"N","o","N","e">>,
      <<" ","N","O","N","E">>,
      <<"N","O","N","E"," ">>,
      <<"n","o","n","e"," ","e","x","t","r","a">>,
      <<"N","O","N","E","q","u","e","u","e","=","q","1">>,
      <<"N","O","N","E",",","R","e","s","o","u","r","c","e","_","L","i","s","t",".","n","c","p","u","s","=","1">>,
      <<" ">>,
      <<"\t","n","o","n","e",",","q","u","e","u","e","=","q","1">>,
      <<" ","q","u","e","u","e","=","q","1">>,
      <<VT,"N","O","N","E">>,
      <<VT,"q","u","e","u","e","=","q","1">> }

PreemptValues ==
    {JoinWith(es, ",") : es \in SeqsUpTo(PreemptEntries, MaxEntries)} \cup PreemptOdd

RescNames ==
    { <<"n","c","p","u","s">>,
      <<"s","e","l","e","c","t">>,
      <<"f","o","o">> }
RescValues ==
    { <<"1">>,
      <<"-","1">>,
      <<"x">>,
      <<>>,
      <<"n","c","p","u","s","=","-","1">>,
      <<"n","c","p","u","s","=","1","+","n","c","p","u","s","=","x">> }
DependValues ==
    { <<>>,
      <<"a","f","t","e","r",":","1">>,
      <<"a","f","t","e","r",":","1",".","s","v","r">>,
      <<"a","f","t","e","r",":","1",":","2">>,
      <<"a","f","t","e","r">>,
      <<"a","f","t","e","r",":","x">>,
      <<"o","n",":","1">> }
PathValues ==
    { <<>>,
      <<"/","a">>,
      <<"h",":","/","a">>,
      <<"h",":">>,
      <<":","/","a">>,
      <<"/","a"," ","b">> }
MailValues ==
    { <<>>,
      <<"n">>,
      <<"a","b","e">>,
      <<" ","a","b","e">>,
      <<" "," ">>,
      <<" ","x">>,
      <<"\t","n">>,
      <<"c">>,
      <<"a","c">>,
      <<"a","n">>,
      <<"a"," ","b">>,
      <<VT,"n">>,
      <<VT,"a","b","e">>,
      <<VT>> }
AclValues ==
    { <<>>,
      <<"u","@","n","1",".","d">>,
      <<"u","@","N","1",".","D">>,
      <<"u","@","n","1">>,
      <<"u","@","*">>,
      <<"u">>,
      <<"u","@","x">>,
      <<" ","u","@","*"," ",","," ","v","@","n","1",".","d"," ">>,
      <<"u","@","*",",","v">>,
      <<"u","@","x",",","v","@","*">>,
      <<"u","@","*",".","x">>,
      <<"u"," ","@","*">>,
      <<" ">>,
      <<",","u","@","*">>,
      <<",",",","u","@","*">>,
      <<"u","@","*",",">>,
      <<"u","@","*"," ",","," "," ",",","v","@","*">>,
      <<"u","@","n","1",".","d"," ",",","v","@","x",",","w","@","n","1">>,
      <<"u","@","x",",","v","@","n","1">> }

\* the longest value of the one-letter-code verifiers
MaxCodes == 3

\* hold values: the legal letters and one that is not
HoldValues == {<<>>} \cup SeqsUpTo(HoldChars \cup {"x"}, MaxCodes)


\* priority values: the boundaries of the range and of int and long, text
\* that is not a number, and a sign or white space before the digits
PriorityValues ==
    { <<>>,
      <<"0">>, <<"5">>, <<"+","5">>, <<" ","7">>, <<"-","0">>,
      <<VT,"7">>, <<VT,"2","0","0","0">>, <<VT,"-","2","0","0","0">>,
      <<"1","0","2","3">>, <<"1","0","2","4">>,
      <<"-","1","0","2","4">>, <<"-","1","0","2","5">>,
      <<"0","0","1","0","2","3">>,
      <<"a","b","c">>, <<"1","2","x">>, <<"-">>,
      <<"2","1","4","7","4","8","3","6","4","7">>,
      <<"2","1","4","7","4","8","3","6","4","8">>,
      <<"-","2","1","4","7","4","8","3","6","4","8">>,
      <<"-","2","1","4","7","4","8","3","6","4","9">>,
      <<"4","2","9","4","9","6","7","2","9","6">>,
      <<"-","4","2","9","4","9","6","7","2","9","6">>,
      <<"4","2","9","4","9","6","8","3","2","0">>,
      <<"9","2","2","3","3","7","2","0","3","6","8","5","4","7","7","5","8","0","7">>,
      <<"9","2","2","3","3","7","2","0","3","6","8","5","4","7","7","5","8","0","8">>,
      <<"-","9","2","2","3","3","7","2","0","3","6","8","5","4","7","7","5","8","0","9">>,
      <<"9","9","9","9","9","9","9","9","9","9","9","9","9","9","9","9","9","9","9","9","9","9">> }


\* checkpoint values: letters, '=', a digit and an illegal letter, and two
\* values with several digits
CheckpointValues ==
    {<<>>, <<"c","=","1","2","0">>, <<"w","=","1","2","0">>, <<"c","=","1","2","x">>}
        \cup SeqsUpTo({"n", "s", "c", "w", "u", "=", "1", "x"}, MaxCodes)


\* queue types: prefixes of the two literals in either case, the literals,
\* the literals with a character more, and values that match neither
QueueTypeValues ==
    { <<>>,
      <<"e">>, <<"E">>, <<"r">>, <<"x">>, <<" ","e">>,
      <<"e","x">>, <<"E","X","E","C">>, <<"e","r">>, <<"r","x">>,
      <<"r","o","u","t","e">>, <<"R","o","u","t","e">>, <<"R","O","U","T">>,
      <<"R","o","u","t","e","s">>, <<"r","o","u","t","e"," ">>,
      <<"E","x","e","c","u","t","i","o","n">>,
      <<"e","x","e","c","u","t","i","o","n","s">>,
      <<"e","x","e","c","u","t","e">> }


\* values for the verifiers of one value: the empty value, numbers around
\* the limits, the literals of the enumerations and values outside them
ScalarValues ==
    { <<>>, <<"0">>, <<"1">>, <<"-","1">>, <<"x">>,
      <<VT,"5">>, <<VT,"-","5">>, <<VT,"0">>,
      <<"2","1","4","7","4","8","3","6","4","8">>,
      <<"9","9","9","9","9","9","9","9","9","9","9">>,
      <<"-","9","9","9","9","9","9","9","9","9","9","9">>,
      <<"9","2","2","3","3","7","2","0","3","6","8","5","4","7","7","5","8","0","8">>,
      <<"-","9","2","2","3","3","7","2","0","3","6","8","5","4","7","7","5","8","0","9">>,
      <<"1","0","0","0","0","0","0","0">>, <<"1","0","0","0","0","0","0","1">>,
      <<"o","e">>, <<"e">>, <<"n">>, <<"h","o","m","e">>, <<"P","R","I","V","A","T","E">>,
      <<"a","e","s">>, <<"Q","R">>, <<"Q","r">>, <<"u","@","h">> }


(***************************************************************************)
(* The state machine: a caller that hands one attribute to one verifier    *)
(* and takes the result.                                                   *)
(*   pc    "idle", "returned", or "resolving" while the call waits in      *)
(*         get_fullhostname                                                *)
(*   call  the verifier called and its arguments                           *)
(*   ret   what the call returned, *err_msg and pattr->value after it      *)
(*   acl   where verify_value_mgr_opr_acl_check stands while it waits      *)
(***************************************************************************)
VARIABLES pc, call, ret, acl

vars == <<pc, call, ret, acl>>

NoCall == [fn |-> "none", batch_request |-> "none", pattr |-> NullAttropl, failAt |-> 0]
NoRet == Ret(PBSE_NONE, NoMsg, NULLPTR, Env0(0))
NoAcl == AclEnd(PBSE_NONE, Env0(0))

Init ==
    /\ pc = "idle"
    /\ call = NoCall
    /\ ret = NoRet
    /\ acl = NoAcl

\* the caller's attribute: its value in a buffer of the caller's
CallerAttr(resource, value) ==
    Attropl(Ptr("lit", ATTR_l), resource, Ptr("caller", value))

MkCall(fn, batch_request, pattr, failAt) ==
    [fn |-> fn, batch_request |-> batch_request, pattr |-> pattr, failAt |-> failAt]

\* the attribute with a NULL value, and with a value in a caller's buffer
ValueAttrs(values) ==
    {Attropl(Ptr("lit", ATTR_l), NULLPTR, NULLPTR)}
        \cup {CallerAttr(NULLPTR, v) : v \in values}

Call_resc ==
    /\ pc = "idle"
    /\ pc' = "returned"
    /\ UNCHANGED acl
    /\ \E pattr \in {NullAttropl}
                 \cup {CallerAttr(NULLPTR, v) : v \in RescValues}
                 \cup {CallerAttr(Ptr("lit", n), v) : n \in RescNames, v \in RescValues},
       failAt \in 0..MaxFailAt, bits \in LongBits :
        /\ call' = MkCall("verify_value_resc", PBS_BATCH_QueueJob, pattr, failAt)
        /\ ret' = verify_value_resc(pattr, NoMsg, EnvOf(failAt, bits))

Call_select ==
    /\ pc = "idle"
    /\ pc' = "returned"
    /\ UNCHANGED acl
    /\ \E pattr \in {Attropl(Ptr("lit", ATTR_l), Ptr("lit", S_select), NULLPTR)}
                 \cup {CallerAttr(Ptr("lit", S_select), v) : v \in SelectValues},
       failAt \in 0..MaxFailAt, bits \in LongBits :
            /\ call' = MkCall("verify_value_select", PBS_BATCH_QueueJob, pattr, failAt)
            /\ ret' = verify_value_select(pattr, NoMsg, EnvOf(failAt, bits))

Call_preempt_targets ==
    /\ pc = "idle"
    /\ pc' = "returned"
    /\ UNCHANGED acl
    /\ \E pattr \in ValueAttrs(PreemptValues), failAt \in 0..MaxFailAt, bits \in LongBits :
            /\ call' = MkCall("verify_value_preempt_targets", PBS_BATCH_QueueJob, pattr, failAt)
            /\ ret' = verify_value_preempt_targets(pattr, NoMsg, EnvOf(failAt, bits))

Call_dependlist ==
    /\ pc = "idle"
    /\ pc' = "returned"
    /\ UNCHANGED acl
    /\ \E pattr \in {Attropl(Ptr("lit", ATTR_l), NULLPTR, NULLPTR)}
                 \cup {CallerAttr(NULLPTR, v) : v \in DependValues},
       failAt \in 0..MaxFailAt :
        /\ call' = MkCall("verify_value_dependlist", PBS_BATCH_QueueJob, pattr, failAt)
        /\ ret' = verify_value_dependlist(pattr, NoMsg, Env0(failAt))

Call_path ==
    /\ pc = "idle"
    /\ pc' = "returned"
    /\ UNCHANGED acl
    /\ \E pattr \in {Attropl(Ptr("lit", ATTR_l), NULLPTR, NULLPTR)}
                 \cup {CallerAttr(NULLPTR, v) : v \in PathValues},
       failAt \in 0..MaxFailAt :
        /\ call' = MkCall("verify_value_path", PBS_BATCH_QueueJob, pattr, failAt)
        /\ ret' = verify_value_path(pattr, NoMsg, Env0(failAt))

Call_mailpoints ==
    /\ pc = "idle"
    /\ pc' = "returned"
    /\ UNCHANGED acl
    /\ \E pattr \in ValueAttrs(MailValues), br \in {PBS_BATCH_QueueJob, PBS_BATCH_SubmitResv} :
            /\ call' = MkCall("verify_value_mailpoints", br, pattr, 0)
            /\ ret' = verify_value_mailpoints(br, pattr, NoMsg, Env0(0))

\* the call goes on to a: it waits in get_fullhostname, or returns
AclGoes(a, pattr) ==
    IF a.wait
    THEN /\ pc' = "resolving"
         /\ acl' = a
         /\ ret' = NoRet
    ELSE /\ pc' = "returned"
         /\ acl' = NoAcl
         /\ ret' = Ret(a.err, NoMsg, pattr.value, a.env)

Call_mgr_opr_acl_check ==
    /\ pc = "idle"
    /\ \E pattr \in ValueAttrs(AclValues), failAt \in 0..MaxFailAt, pre \in BytesBefore,
          krb5 \in BOOLEAN :
            /\ call' = MkCall("verify_value_mgr_opr_acl_check", PBS_BATCH_QueueJob, pattr, failAt)
                            @@ ("byte_before" :> pre) @@ ("krb5" :> krb5)
            /\ AclGoes(verify_value_mgr_opr_acl_check(pattr, NoMsg, EnvKrb5(failAt, krb5), pre),
                       pattr)

\* get_fullhostname returns and verify_value_mgr_opr_acl_check goes on
Acl_Resolved ==
    /\ pc = "resolving"
    /\ UNCHANGED call
    /\ AclGoes(acl_resume(acl, call.byte_before), call.pattr)

Call_hold ==
    /\ pc = "idle"
    /\ pc' = "returned"
    /\ UNCHANGED acl
    /\ \E pattr \in ValueAttrs(HoldValues), br \in BatchRequests :
        /\ call' = MkCall("verify_value_hold", br, pattr, 0)
        /\ ret' = verify_value_hold(br, pattr, NoMsg, Env0(0))


Call_priority ==
    /\ pc = "idle"
    /\ pc' = "returned"
    /\ UNCHANGED acl
    /\ \E pattr \in ValueAttrs(PriorityValues), br \in BatchRequests, bits \in LongBits :
        /\ call' = MkCall("verify_value_priority", br, pattr, 0) @@ ("long_bits" :> bits)
        /\ ret' = verify_value_priority(br, pattr, NoMsg, Env0(0), bits)


Call_checkpoint ==
    /\ pc = "idle"
    /\ pc' = "returned"
    /\ UNCHANGED acl
    /\ \E p \in ValueAttrs(CheckpointValues), op \in BatchOps, br \in BatchRequests :
        /\ call' = MkCall("verify_value_checkpoint", br, WithOp(p, op), 0)
        /\ ret' = verify_value_checkpoint(br, WithOp(p, op), NoMsg, Env0(0))


Call_queue_type ==
    /\ pc = "idle"
    /\ pc' = "returned"
    /\ UNCHANGED acl
    /\ \E pattr \in ValueAttrs(QueueTypeValues), br \in BatchRequests :
        /\ call' = MkCall("verify_value_queue_type", br, pattr, 0)
        /\ ret' = verify_value_queue_type(br, pattr, NoMsg, Env0(0))


Call_scalar ==
    /\ pc = "idle"
    /\ pc' = "returned"
    /\ UNCHANGED acl
    /\ \E fn \in ScalarVerifiers, pattr \in ValueAttrs(ScalarValues), br \in BatchRequests :
        \E ext \in ParserCodes(fn), bits \in LongBits :
            /\ call' = MkCall(fn, br, pattr, 0) @@ ("ext" :> ext)
            /\ ret' = at_verify_scalar(fn, br, pattr, NoMsg, EnvOf(0, bits), ext)


\* the caller takes the result of a call that returned and is ready for the
\* next attribute
Return ==
    /\ pc = "returned"
    /\ ret.returns
    /\ pc' = "idle"
    /\ call' = NoCall
    /\ ret' = NoRet
    /\ UNCHANGED acl

Next ==
    \/ Call_resc
    \/ Call_select
    \/ Call_preempt_targets
    \/ Call_dependlist
    \/ Call_path
    \/ Call_mailpoints
    \/ Call_mgr_opr_acl_check
    \/ Acl_Resolved
    \/ Call_hold
    \/ Call_priority
    \/ Call_checkpoint
    \/ Call_queue_type
    \/ Call_scalar
    \/ Return

Spec == Init /\ [][Next]_vars

(***************************************************************************)
(* Properties                                                              *)
(***************************************************************************)
Returned(fn) == pc = "returned" /\ call.fn = fn /\ ret.returns

Trace == ret.env.trace

\* the value handed to the verifier
InValue == Str(call.pattr.value)

\* the allocation chosen to fail was reached
AllocFailed == call.failAt # 0 /\ ret.env.nalloc >= call.failAt

\* no resource verification nested in the call reported an allocation failure,
\* so a failed allocation was the called verifier's own
NoNestedFatal ==
    \A k \in 1..Len(Trace) : Trace[k].op = "verify_value_resc" => Trace[k].rc >= 0

AllocatingVerifiers ==
    {"verify_value_resc", "verify_value_dependlist", "verify_value_path",
     "verify_value_preempt_targets", "verify_value_mgr_opr_acl_check"}

\* C1: when an allocation of a verifier fails, the verifier returns a code
\* below zero, never a positive rejection code.
C1_AllocFailureIsNegative ==
    (pc = "returned" /\ ret.returns /\ call.fn \in AllocatingVerifiers
        /\ AllocFailed /\ NoNestedFatal)
    => ret.code < 0

\* C2: a verifier that returns a code other than Accepted leaves the
\* attribute's value pointing at the same place of the same buffer, with
\* the same content (stated for the calls in which every allocation
\* succeeds).
C2_ValueUntouchedOnFailure ==
    (pc = "returned" /\ ret.returns /\ ~call.pattr.null /\ call.failAt = 0
        /\ ret.code # PBSE_NONE)
    => ret.value = call.pattr.value

\* the resource name is in no entry of the resource definition table
AbsentResc(name) ==
    \A k \in 1..Len(ecl_svr_resc_def) :
        ~strcasecmp_eq(ecl_svr_resc_def[k].at_name, name)

RECURSIVE WalkChunks(_)

\* the pairs of a selection spec in decoded order, pp being what the
\* splitter returned last; ok is FALSE when the splitter or the decoder fails
WalkChunks(pp) ==
    IF pp.rc # 0 THEN [ok |-> FALSE, pairs |-> <<>>]
    ELSE IF pp.isnull THEN [ok |-> TRUE, pairs |-> <<>>]
    ELSE IF parse_chunk(pp.chunk).rc # 0 THEN [ok |-> FALSE, pairs |-> <<>>]
    ELSE LET rest == WalkChunks(parse_plus_spec(NULLPTR, pp.plus))
         IN  [ok |-> rest.ok, pairs |-> parse_chunk(pp.chunk).pkvp \o rest.pairs]

DecodedPairs(v) == WalkChunks(parse_plus_spec(Ptr("caller", v), NoPlus))

AllAbsent(pairs) == \A k \in 1..Len(pairs) : AbsentResc(pairs[k].kv_keyw)

\* C3: the resource verifier accepts a resource that is in no entry of the
\* definition table, without a message and without running a checker; the
\* selection verifier accepts a spec that parses and names only such resources.
C3_UnknownResourceAccepted ==
    /\ (Returned("verify_value_resc") /\ ~call.pattr.null
            /\ ~call.pattr.resource.null /\ AbsentResc(Str(call.pattr.resource)))
       => (ret.code = PBSE_NONE /\ ret.err_msg.isnull /\ Trace = <<>>)
    /\ (Returned("verify_value_select") /\ InValue # <<>>
            /\ DecodedPairs(InValue).ok /\ AllAbsent(DecodedPairs(InValue).pairs))
       => (ret.code = PBSE_NONE /\ ret.err_msg.isnull)

\* a selection spec of two chunks naming only unknown resources was accepted
C3_Witness ==
    /\ Returned("verify_value_select")
    /\ InValue # <<>>
    /\ DecodedPairs(InValue).ok
    /\ Len(DecodedPairs(InValue).pairs) >= 2
    /\ AllAbsent(DecodedPairs(InValue).pairs)
    /\ ret.code = PBSE_NONE

\* a direct call of verify_value_resc for a resource the table knows
RescKnownCall ==
    /\ Returned("verify_value_resc")
    /\ ~call.pattr.null
    /\ ~call.pattr.resource.null
    /\ ~AbsentResc(Str(call.pattr.resource))

\* the entry of the table for the resource of the call
CallEntry ==
    ecl_svr_resc_def[CHOOSE k \in 1..Len(ecl_svr_resc_def) :
        strcasecmp_eq(ecl_svr_resc_def[k].at_name, Str(call.pattr.resource))]

\* the places of the log where the value checker of the call's resource ran
ValueCheckEvents ==
    {k \in 1..Len(Trace) : Trace[k].op = "at_verify_value"
                           /\ Trace[k].name = Str(call.pattr.resource)}

\* the datatype checker, when the entry has one, is the first thing that runs
DatatypeCheckedFirst ==
    CallEntry.at_verify_datatype # NoFunc
    => /\ Len(Trace) >= 1
       /\ Trace[1].op = "at_verify_datatype"
       /\ Trace[1].name = Str(call.pattr.resource)
       /\ Trace[1].value = InValue

DatatypeFailed == CallEntry.at_verify_datatype # NoFunc /\ Trace[1].rc # 0

\* the value checker runs only when the entry has one and the datatype
\* checker, if any, returned 0
ValueCheckedOnlyAfterSuccess ==
    /\ ValueCheckEvents # {} => (CallEntry.at_verify_value # NoFunc /\ ~DatatypeFailed)
    /\ (CallEntry.at_verify_datatype # NoFunc) => \A k \in ValueCheckEvents : k > 1

\* C4 (as stated): the datatype checker runs before the value checker, the
\* value checker runs only after the datatype checker returned 0, and when
\* the datatype checker fails its code is the result.
C4_DatatypeCodeIsResult ==
    RescKnownCall
    => /\ DatatypeCheckedFirst
       /\ ValueCheckedOnlyAfterSuccess
       /\ DatatypeFailed => ret.code = Trace[1].rc

\* C4 (amended): as stated, except that when the datatype checker fails and
\* the message buffer cannot be allocated the result is -1; otherwise the
\* datatype checker's code is the result.
C4_DatatypeBeforeValue ==
    RescKnownCall
    => /\ DatatypeCheckedFirst
       /\ ValueCheckedOnlyAfterSuccess
       /\ DatatypeFailed => ret.code = (IF AllocFailed THEN -1 ELSE Trace[1].rc)

\* the datatype checker rejected the value, the value checker did not run
\* and the datatype checker's code came back
C4_Witness ==
    /\ RescKnownCall
    /\ DatatypeFailed
    /\ CallEntry.at_verify_value # NoFunc
    /\ ValueCheckEvents = {}
    /\ ret.code = Trace[1].rc

\* the calls of verify_value_resc the selection verifier made, in order
RescEvents == SelectSeq(Trace, LAMBDA e : e.op = "verify_value_resc")

\* a returned call of the selection verifier on a spec that parses and in
\* which no pair names the select resource itself
SelectPlainCall ==
    /\ Returned("verify_value_select")
    /\ InValue # <<>>
    /\ DecodedPairs(InValue).ok
    /\ \A k \in 1..Len(DecodedPairs(InValue).pairs) :
           DecodedPairs(InValue).pairs[k].kv_keyw # S_select

\* the pairs verified are the first pairs of the spec, in decoded order
VerifiedInOrder(ev, pairs) ==
    /\ Len(ev) <= Len(pairs)
    /\ \A k \in 1..Len(ev) :
           ev[k].name = pairs[k].kv_keyw /\ ev[k].value = pairs[k].kv_val

\* C5: the selection verifier visits chunks left to right and pairs in
\* decoded order; it returns the code of the first pair the resource
\* verifier rejects and verifies no later pair; the result is Accepted only
\* if every pair of every chunk was accepted.
C5_SelectInOrderFirstRejection ==
    SelectPlainCall
    => /\ VerifiedInOrder(RescEvents, DecodedPairs(InValue).pairs)
       /\ \A k \in 1..Len(RescEvents) :
              RescEvents[k].rc > 0 => (k = Len(RescEvents) /\ ret.code = RescEvents[k].rc)
       /\ ret.code = PBSE_NONE
          => /\ Len(RescEvents) = Len(DecodedPairs(InValue).pairs)
             /\ \A k \in 1..Len(RescEvents) : RescEvents[k].rc = PBSE_NONE

\* C6: when the resource verifier returns a code below zero for a pair, the
\* selection verifier stops there, verifies no later pair or chunk and
\* returns that code.
C6_SelectStopsOnFatal ==
    Returned("verify_value_select")
    => \A k \in 1..Len(RescEvents) :
           RescEvents[k].rc < 0 => (k = Len(RescEvents) /\ ret.code = RescEvents[k].rc)

\* the value starts with NONE, in any letter case
IsNonePrefix(s) == Len(s) >= 4 /\ LowerStr(SubSeq(s, 1, 4)) = LowerStr(TARGET_NONE)

\* C7: the preemption-target verifier accepts a value that is NONE in any
\* letter case and rejects with PBSE_BADATVAL a longer value that starts
\* with NONE, in both cases without scanning for a keyword.
C7_NoneExactOnly ==
    (Returned("verify_value_preempt_targets") /\ IsNonePrefix(InValue))
    => /\ ret.code = (IF Len(InValue) = 4 THEN PBSE_NONE ELSE PBSE_BADATVAL)
       /\ Trace = <<>>
       /\ ret.env.nalloc = 0

\* a value longer than NONE that starts with it was rejected
C7_Witness ==
    /\ Returned("verify_value_preempt_targets")
    /\ IsNonePrefix(InValue)
    /\ Len(InValue) > 4
    /\ ret.code = PBSE_BADATVAL

\* kw occurs in s
Occurs(kw, s) == \E i \in 1..Len(s) : i + Len(kw) - 1 <= Len(s)
                                      /\ SubSeq(s, i, i + Len(kw) - 1) = kw

\* one of the two keywords occurs in the value
HasKeyword(s) == Occurs(ATTR_l, s) \/ Occurs(ATTR_queue, LowerStr(s))

RECURSIVE SkipLeadingSpace(_)

SkipLeadingSpace(s) ==
    IF s # <<>> /\ isspace(Head(s)) THEN SkipLeadingSpace(Tail(s)) ELSE s

\* C8 (as stated): for a value that is not a NONE form the result is
\* Accepted only if a keyword was found, and a non-empty value with neither
\* keyword is rejected with PBSE_BADATVAL.
C8_KeywordNeeded ==
    (Returned("verify_value_preempt_targets") /\ ~IsNonePrefix(InValue))
    => /\ ret.code = PBSE_NONE => HasKeyword(InValue)
       /\ (InValue # <<>> /\ ~HasKeyword(InValue)) => ret.code = PBSE_BADATVAL

\* C8 (amended): the same for a value that does not start with NONE once its
\* leading white space is skipped; a non-empty value with neither keyword
\* gets PBSE_BADATVAL, or PBSE_SYSTEM when the lower-case copy of the queue
\* pass cannot be allocated.
C8_KeywordNeededAfterSpace ==
    (Returned("verify_value_preempt_targets") /\ ~IsNonePrefix(SkipLeadingSpace(InValue)))
    => /\ ret.code = PBSE_NONE => HasKeyword(InValue)
       /\ (InValue # <<>> /\ ~HasKeyword(InValue))
          => ret.code = (IF AllocFailed THEN PBSE_SYSTEM ELSE PBSE_BADATVAL)

\* a non-empty value with neither keyword was scanned in both passes and
\* rejected
C8_Witness ==
    /\ Returned("verify_value_preempt_targets")
    /\ InValue # <<>>
    /\ ~IsNonePrefix(SkipLeadingSpace(InValue))
    /\ ~HasKeyword(InValue)
    /\ Len(Trace) = 2
    /\ ret.code = PBSE_BADATVAL

\* a datatype or value checker reported a failure during the call
SomeCheckFailed ==
    \E k \in 1..Len(Trace) :
        Trace[k].op \in {"at_verify_datatype", "at_verify_value"} /\ Trace[k].rc # 0

\* C9: once the datatype or value check of an entry fails, the
\* preemption-target verifier returns the failure; a later entry that
\* passes never turns the result into Accepted (stated for the calls in
\* which every allocation succeeds).
C9_FailureNotOverwritten ==
    (Returned("verify_value_preempt_targets") /\ call.failAt = 0 /\ SomeCheckFailed)
    => ret.code # PBSE_NONE

\* C10 (two calls in two threads) is not stated here.  verify_value_select
\* hands parse_plus_spec(NULL, &rc) no context (line 1566), so what the
\* splitter keeps between its calls is kept by the splitter, outside this
\* file: whether two threads share it cannot be read from these lines.

\* the letters that occur in s
CharsOf(s) == {s[k] : k \in 1..Len(s)}

\* non-empty, only hold letters, n alone, p alone
HoldLegal(s) ==
    /\ s # <<>>
    /\ CharsOf(s) \subseteq {"u", "o", "s", "p", "n"}
    /\ "n" \in CharsOf(s) => CharsOf(s) = {"n"}
    /\ "p" \in CharsOf(s) => CharsOf(s) = {"p"}

\* C12: verify_value_hold accepts a value iff it is non-empty, made of the
\* letters u, o, s, p, n only, without n beside another letter and without
\* p beside another letter; every other value gets PBSE_BADATVAL.
C12_HoldAcceptsIffLegal ==
    (Returned("verify_value_hold") /\ ~call.pattr.value.null)
    => ret.code = (IF HoldLegal(InValue) THEN PBSE_NONE ELSE PBSE_BADATVAL)

\* a value that repeats one letter and a value that mixes u, o, s: one of
\* them accepted with more than one character
C12_Witness ==
    /\ Returned("verify_value_hold")
    /\ ~call.pattr.value.null
    /\ Len(InValue) >= 2
    /\ HoldLegal(InValue)
    /\ ret.code = PBSE_NONE

\* the result of a returned call of verify_value_hold on value v is code
HoldGives(v, code) ==
    (Returned("verify_value_hold") /\ ~call.pattr.value.null /\ InValue = v)
    => ret.code = code

\* C13 (as stated): hold "n" is accepted, "no" rejected, "up" accepted,
\* "pn" rejected.
C13_HoldExamples ==
    /\ HoldGives(<<"n">>, PBSE_NONE)
    /\ HoldGives(<<"n", "o">>, PBSE_BADATVAL)
    /\ HoldGives(<<"u", "p">>, PBSE_NONE)
    /\ HoldGives(<<"p", "n">>, PBSE_BADATVAL)

\* C13 (amended): hold "n" is accepted; "no", "up" and "pn" are rejected
\* with PBSE_BADATVAL.
C13_HoldExamplesUpRejected ==
    /\ HoldGives(<<"n">>, PBSE_NONE)
    /\ HoldGives(<<"n", "o">>, PBSE_BADATVAL)
    /\ HoldGives(<<"u", "p">>, PBSE_BADATVAL)
    /\ HoldGives(<<"p", "n">>, PBSE_BADATVAL)

\* the call on "up" returned, rejected
C13_Witness ==
    /\ Returned("verify_value_hold")
    /\ ~call.pattr.value.null
    /\ InValue = <<"u", "p">>
    /\ ret.code = PBSE_BADATVAL


\* s is an optional sign followed by digits only, at least one
IsIntLiteral(s) ==
    LET d == IF s # <<>> /\ s[1] \in {"-", "+"} THEN Tail(s) ELSE s
    IN  d # <<>> /\ \A k \in 1..Len(d) : isdigit(d[k])

RECURSIVE DecimalValue(_)
\* the number a short sequence of digits denotes
DecimalValue(d) ==
    IF d = <<>> THEN 0
    ELSE 10 * DecimalValue(SubSeq(d, 1, Len(d) - 1)) + DigitVal(d[Len(d)])

RECURSIVE DropZeros(_)
DropZeros(d) == IF d # <<>> /\ d[1] = "0" THEN DropZeros(Tail(d)) ELSE d

\* the integer literal s denotes a number in [-1024, 1023]
InPriorityRange(s) ==
    LET d == DropZeros(IF s[1] \in {"-", "+"} THEN Tail(s) ELSE s)
    IN  /\ Len(d) <= 4
        /\ DecimalValue(d) <= (IF s[1] = "-" THEN 1024 ELSE 1023)

\* C14: for every request kind but select-jobs verify_value_priority accepts
\* an integer value iff the integer is in [-1024, 1023] and rejects the
\* others with PBSE_BADATVAL; under select-jobs it accepts every non-empty
\* value.
C14_PriorityRange ==
    (Returned("verify_value_priority") /\ ~call.pattr.value.null /\ InValue # <<>>)
    => /\ call.batch_request = PBS_BATCH_SelectJobs => ret.code = PBSE_NONE
       /\ (call.batch_request # PBS_BATCH_SelectJobs /\ IsIntLiteral(InValue))
          => ret.code = (IF InPriorityRange(InValue) THEN PBSE_NONE ELSE PBSE_BADATVAL)


\* c=<digits> or w=<digits>, with at least one digit and nothing after them
IsIntervalForm(s) ==
    /\ Len(s) >= 3
    /\ s[1] \in {"c", "w"}
    /\ s[2] = "="
    /\ \A k \in 3..Len(s) : isdigit(s[k])

CheckpointLegal(s) ==
    \/ Len(s) = 1 /\ s[1] \in {"n", "s", "c", "w", "u"}
    \/ IsIntervalForm(s)

\* C15: verify_value_checkpoint accepts exactly the one-letter values n, s,
\* c, w, u and the values c=<digits>, w=<digits>; under select-jobs the
\* value u is accepted only with the operator EQ or NE, and the operator
\* matters nowhere else; every other value gets PBSE_BADATVAL.
C15_CheckpointGrammar ==
    (Returned("verify_value_checkpoint") /\ ~call.pattr.value.null)
    => ret.code =
         (IF /\ CheckpointLegal(InValue)
             /\ (call.batch_request = PBS_BATCH_SelectJobs /\ InValue = <<"u">>)
                => call.pattr.op \in {"EQ", "NE"}
          THEN PBSE_NONE ELSE PBSE_BADATVAL)

\* a value c=<digits> with several digits was accepted
C15_Witness ==
    /\ Returned("verify_value_checkpoint")
    /\ ~call.pattr.value.null
    /\ IsIntervalForm(InValue)
    /\ Len(InValue) >= 5
    /\ ret.code = PBSE_NONE


\* v is a prefix of lit when the case of the letters is ignored
IsPrefixNoCase(v, lit) ==
    /\ Len(v) <= Len(lit)
    /\ \A k \in 1..Len(v) : tolower(v[k]) = tolower(lit[k])

\* C20: verify_value_queue_type accepts a non-empty value iff it is a
\* prefix, whatever the case, of "Execution" or of "Route"; a value longer
\* than the literal it starts with, or matching neither, gets PBSE_BADATVAL.
C20_QueueTypePrefix ==
    (Returned("verify_value_queue_type") /\ ~call.pattr.value.null /\ InValue # <<>>)
    => ret.code =
         (IF \/ IsPrefixNoCase(InValue, <<"E","x","e","c","u","t","i","o","n">>)
             \/ IsPrefixNoCase(InValue, <<"R","o","u","t","e">>)
          THEN PBSE_NONE ELSE PBSE_BADATVAL)

\* a value that starts with a whole literal and goes on was rejected
C20_Witness ==
    /\ Returned("verify_value_queue_type")
    /\ ~call.pattr.value.null
    /\ Len(InValue) = 6
    /\ IsPrefixNoCase(<<"R","o","u","t","e">>, InValue)
    /\ ret.code = PBSE_BADATVAL


\* the requests under which verifier fn accepts the empty value
EmptyAccepted(fn, batch_request) ==
    \/ fn = "verify_value_jobname"
        /\ batch_request \in {PBS_BATCH_StatusJob, PBS_BATCH_SelectJobs}
    \/ fn = "verify_value_state" /\ batch_request = PBS_BATCH_StatusJob

\* a NULL value is not accepted, the empty value is accepted exactly under
\* the requests of EmptyAccepted
NullAndEmptyHandled ==
    /\ call.pattr.value.null => ret.code # PBSE_NONE
    /\ (~call.pattr.value.null /\ InValue = <<>>)
        => (ret.code = PBSE_NONE <=> EmptyAccepted(call.fn, call.batch_request))

\* C11 as stated: every verifier rejects a NULL value, and rejects the empty
\* value except the job-name verifier under status-job and select-jobs and
\* the job-state verifier under status-job.
C11_NullAndEmptyRejected ==
    (pc = "returned" /\ ret.returns /\ ~call.pattr.null) => NullAndEmptyHandled

\* the call is one of verify_value_mgr_opr_acl_check in the build with
\* PBS_SECURITY == KRB5
KerberosAclCall == call.fn = "verify_value_mgr_opr_acl_check" /\ call.krb5

\* C11, amended: the statement holds of every verifier but verify_value_resc,
\* which does not look at the value of an attribute whose resource is
\* absent or not in the definition table, and but
\* verify_value_mgr_opr_acl_check in the build with PBS_SECURITY == KRB5,
\* which accepts every value, NULL and empty included.
C11_NullAndEmptyRejectedButRescAndKerberosAcl ==
    (pc = "returned" /\ ret.returns /\ ~call.pattr.null /\ call.fn # "verify_value_resc"
        /\ ~KerberosAclCall)
    => NullAndEmptyHandled

\* the two exceptions of the amended C11 are exceptions: in the build with
\* PBS_SECURITY == KRB5 the ACL verifier accepts NULL and the empty value
C11_KerberosAclAcceptsAll ==
    (pc = "returned" /\ KerberosAclCall) => (ret.returns /\ ret.code = PBSE_NONE)

\* the job-state verifier accepted the empty value of a status-job request
C11_Witness ==
    /\ Returned("verify_value_state")
    /\ call.batch_request = PBS_BATCH_StatusJob
    /\ ~call.pattr.value.null
    /\ InValue = <<>>
    /\ ret.code = PBSE_NONE


\* the index of the first comma of b at or after index r, Len(b) + 1 when
\* there is none
EntryEnd(b, r) == Min({j \in r..(Len(b) + 1) : j = Len(b) + 1 \/ b[j] = ","})

\* an entry of b starts at index r with the keyword kw
KeywordEntryAt(b, r, kw) ==
    /\ r = 1 \/ b[r - 1] = ","
    /\ r + Len(kw) - 1 <= Len(b)
    /\ SubSeq(b, r, r + Len(kw) - 1) = kw

\* an entry of the value v that starts with a keyword and has no '=' before
\* the next comma
KeywordEntryWithoutEquals(v) ==
    \E r \in 1..Len(v) :
        /\ KeywordEntryAt(v, r, ATTR_l) \/ KeywordEntryAt(LowerStr(v), r, ATTR_queue)
        /\ \A j \in r..(EntryEnd(v, r) - 1) : v[j] # "="

\* C16: in verify_value_preempt_targets an entry found at a keyword whose
\* text up to the next comma (or the end) has no '=' is rejected, also when
\* a later entry of the value has an '='.
C16_EntryNeedsEquals ==
    (Returned("verify_value_preempt_targets") /\ call.failAt = 0
        /\ ~call.pattr.value.null /\ KeywordEntryWithoutEquals(InValue))
    => ret.code # PBSE_NONE

\* C17: on every return of verify_value_preempt_targets the characters of
\* the attribute's value buffer are those at entry.
C17_BufferRestored ==
    (Returned("verify_value_preempt_targets") /\ ~call.pattr.value.null)
    => ret.value.mem = call.pattr.value.mem

\* C18: verify_value_preempt_targets returns for every value: the keyword
\* scan never matches the same occurrence twice.
C18_ScanTerminates ==
    (pc = "returned" /\ call.fn = "verify_value_preempt_targets") => ret.returns


\* e without the spaces at its two ends
TrimSpaces(e) ==
    LET solid == {k \in 1..Len(e) : e[k] # " "}
    IN  IF solid = {} THEN <<>>
        ELSE SubSeq(e, Min(solid), CHOOSE k \in solid : \A m \in solid : m <= k)

\* the text of entry e after its first '@'
HostPart(e) == SubSeq(e, strchr(e, 1, "@") + 1, Len(e))

\* the host part h resolves to a full name equal to it but for the case
ResolvesToItself(h) ==
    get_fullhostname(h).rc = 0 /\ LowerStr(get_fullhostname(h).namebuf) = LowerStr(h)

\* the entry e, trimmed, has an '@' and a host part that is a wildcard or
\* resolves to itself
AclEntryGood(e) ==
    /\ strchr(e, 1, "@") # 0
    /\ At(HostPart(e), 1) = "*" \/ ResolvesToItself(HostPart(e))

\* the trimmed entries of the value v
AclEntries(v) == [k \in 1..Len(SplitOn(v, ",")) |-> TrimSpaces(SplitOn(v, ",")[k])]

\* the entries of es examined: those up to the first bad one
AclExamined(es) ==
    LET bad == {k \in 1..Len(es) : ~AclEntryGood(es[k])}
    IN  IF bad = {} THEN es ELSE SubSeq(es, 1, Min(bad))

\* the host parts the resolver is asked about for the examined entries es
ResolvedOf(es) ==
    LET asks(e) == strchr(e, 1, "@") # 0 /\ At(HostPart(e), 1) # "*"
        F[k \in 0..Len(es)] ==
            IF k = 0 THEN <<>>
            ELSE IF asks(es[k]) THEN Append(F[k - 1], HostPart(es[k])) ELSE F[k - 1]
    IN  F[Len(es)]

\* the host parts get_fullhostname was called with, in order
ResolverCalls == [k \in 1..Len(Trace) |-> Trace[k].name]

\* C19: verify_value_mgr_opr_acl_check splits the value on commas, trims
\* each entry and accepts iff every entry has an '@' and a host part that is
\* a wildcard (not resolved) or resolves to itself whatever the case; the
\* first bad entry gives PBSE_BADHOST and the entries after it are not
\* examined; the failure of strdup is the only fatal result.
C19_AclEntries ==
    (Returned("verify_value_mgr_opr_acl_check") /\ ~call.pattr.value.null
        /\ InValue # <<>>)
    => IF call.failAt = 1 THEN ret.code = AclAllocFailCode
       ELSE /\ ret.code = (IF \A k \in 1..Len(AclEntries(InValue)) :
                                  AclEntryGood(AclEntries(InValue)[k])
                           THEN PBSE_NONE ELSE PBSE_BADHOST)
            /\ ResolverCalls = ResolvedOf(AclExamined(AclEntries(InValue)))

\* C19 for the calls, in the build without PBS_SECURITY == KRB5, in which the
\* copy of the value does not start with an empty entry, so that the
\* trimming loop stays inside the copy
C19_AclEntriesInBounds ==
    (pc = "returned" /\ call.fn = "verify_value_mgr_opr_acl_check" /\ ~call.krb5
        /\ InValue # <<>> /\ InValue[1] # ",")
    => C19_AclEntries

=============================================================================
